---- MODULE Spec2Model ----
(***************************************************************************)
(* Session lifecycle and process multiplexing of claudelet's server:       *)
(* the terminal routes (server/src/routes/terminal.ts), the chat routes    *)
(* (server/src/routes/chat.ts), the session routes                         *)
(* (server/src/routes/sessions.ts), the repository routes                  *)
(* (server/src/routes/repositories.ts) and the table accessors.            *)
(*                                                                         *)
(* The server is a single-threaded event loop: a handler runs to           *)
(* completion, or to its next `await`, in one atomic action.  The session, *)
(* terminal and chat handlers await nothing between their reads and their  *)
(* writes; the repository handlers await git commands and are split there. *)
(* What is asynchronous is the outside world: sockets connecting and       *)
(* closing, processes emitting output and exiting some time after a signal *)
(* was sent to them, git commands taking effect.                           *)
(***************************************************************************)
EXTENDS Integers, Sequences, FiniteSets, TLC

\* ---------------------------------------------------------------- bounds
MaxSessions  == 1     \* session ids ever issued by nanoid()
MaxPtys      == 3     \* PTY processes ever spawned
MaxTermSocks == 3     \* terminal WebSocket connections ever accepted
MaxProcs     == 2     \* assistant child processes ever spawned
MaxChatSocks == 2     \* chat WebSocket connections ever accepted
MaxChunks    == 2     \* output chunks one PTY emits
MaxRecords   == 1     \* stdout records or stderr chunks one assistant process emits
MaxRepos      == 2    \* repository ids ever issued by nanoid()
MaxWorkspaces == 2    \* workspace ids ever issued by nanoid()
MaxCalls      == 4    \* invocations of the repository handlers that await git
MaxBlocks     == 2    \* blocks in the content array of one assistant record
MaxLogins     == 3    \* calls of POST /login
MaxLoginChunks == 1   \* output chunks one login PTY emits
MaxOps        == 3    \* calls of checkAuth and logout in the web client
MaxInbound    == 1    \* pongs and invalid-format answers written by one bridge
MaxRefs       == 4    \* refs git lists for one clone
MaxChars      == 4    \* characters one assistant process writes to stdout

\* ------------------------------------------------------ program constants
maxSessionsPerUser == 5

Users      == {"u1", "u2"}
NoUser     == "nobody"          \* validateToken(token) = undefined
ExitCodes  == {0, 1}
SessionIds == 1..MaxSessions
\* the table has room for more rows than one user's quota
RowIds     == 1..(MaxSessions + maxSessionsPerUser)
RepoIds    == 1..MaxRepos
WsIds      == 1..MaxWorkspaces
CallIds    == 1..MaxCalls
Branches   == {"main"}
Urls       == {"git@host:a/r.git"}
PtyIds     == 1..MaxPtys
TermSocks  == 1..MaxTermSocks
ProcIds    == 1..MaxProcs
ChatSocks  == 1..MaxChatSocks
LoginIds   == 1..MaxLogins
LoginChunks == {"text", "url"}
None       == 0                 \* Map.get(key) = undefined

VARIABLES
  rows,             \* terminal_sessions table: id -> row (or no row)
  dirs,             \* session ids whose workspace directory exists on disk
  issued,           \* number of session ids issued so far
  activePtys,       \* terminal.ts: Map sessionId -> pty (None when absent)
  ptys,             \* every PTY process ever spawned
  tsock,            \* terminal WebSockets
  activeProcesses,  \* chat.ts: Map sessionId -> child process
  procs,            \* every assistant child process ever spawned
  csock,            \* chat WebSockets
  reply,            \* the answer to the latest HTTP request answered at once
  reported,         \* the <<session, status>> pairs the latest status, get or
                    \* list answer held
  repos,            \* repositories table: id -> row (or no row)
  repoDirs,         \* repository ids whose clone directory exists on disk
  workspaces,       \* workspaces table: id -> row (or no row)
  wsDirs,           \* workspace ids whose worktree directory exists on disk
  worktrees,        \* git's worktree registrations: workspace id -> branch
  calls,            \* invocations of the repository handlers that await git
  event,            \* chat.ts: the parsed record handed to processClaudeEvent
  evSock,           \* readyState of the socket that record is normalized for
  outbound,         \* the messages processClaudeEvent sent for it
  pendingLogins,    \* chat.ts: Map userId -> login PTY (None when absent)
  logins,           \* every call of POST /login: its PTY, closure and promise
  processEnv,       \* process.env of the server
  store,            \* web client: the state of useAuthStore
  ops,              \* web client: calls of checkAuth and logout
  logoutCalls,      \* web client: POST /api/auth/logout requests sent
  stdoutStream,     \* the bytes an assistant process writes to stdout
  consumed,         \* how many of them the data handler has been given
  jsonBuffer,       \* chat.ts 329: `buffer`, the unterminated line
  records,          \* the records handed to processClaudeEvent, in order
  streamState,      \* none, open (process running), closed
  inbound,          \* the latest inbound unit a message handler or the
                    \* stdout line loop handled, and what it made of it
  gitStdout,        \* repositories.ts 60: stdout of `git branch -a`, by line
  branchList,       \* repositories.ts 97: what listBranches returned for it
  logged            \* part_001 192: the latest "Deleted terminal session" line

repoVars == <<repos, repoDirs, workspaces, wsDirs, worktrees, calls>>
normVars == <<event, evSock, outbound>>
loginVars == <<pendingLogins, logins>>

\* what the session, terminal, chat and repository handlers never touch
webVars == <<store, ops, logoutCalls>>

frameVars == <<stdoutStream, consumed, jsonBuffer, records, streamState>>

msgVars == <<inbound>>
branchVars == <<gitStdout, branchList>>
logVars == <<logged>>

extVars == <<normVars, loginVars, webVars, frameVars, msgVars, branchVars,
            logVars>>

vars == <<rows, dirs, issued, activePtys, ptys, tsock,
          activeProcesses, procs, csock, reply, reported, repoVars, extVars,
          processEnv>>

\* the state of the server's routes
serverVars == <<rows, dirs, issued, activePtys, ptys, tsock,
                activeProcesses, procs, csock, reply, reported, repoVars,
                normVars, loginVars, processEnv, msgVars, branchVars,
                logVars>>

termVars == <<activePtys, ptys, tsock>>
chatVars == <<activeProcesses, procs, csock>>

\* ---------------------------------------------------------------- values
NoRow  == [exists |-> FALSE, user_id |-> NoUser, status |-> "none",
           workspace_id |-> None, project_name |-> 0]
NoPty  == [state |-> "none", sid |-> 0, emitted |-> 0, exitCode |-> 0,
           env |-> <<>>]
NoSock == [state |-> "NONE", sid |-> 0, user |-> NoUser, bound |-> None,
           frames |-> <<>>, closeCode |-> 0]
NoProc == [state |-> "none", sid |-> 0, sock |-> 0, emitted |-> 0,
           buffer |-> "", exitCode |-> 0, env |-> <<>>]
NoRepo      == [exists |-> FALSE, user_id |-> NoUser, git_url |-> ""]
NoWorkspace == [exists |-> FALSE, repository_id |-> None, branch |-> ""]
NoWorktree  == [repo |-> None, branch |-> ""]
NoLogin == [state |-> "none", user |-> NoUser, output |-> <<>>,
            resolved |-> FALSE, outcome |-> "pending", timer |-> "none",
            env |-> <<>>]
NoCall == [op |-> "none", pc |-> "none", user |-> NoUser, repo |-> None,
           ws |-> None, branch |-> "", url |-> "", todo |-> {}, last |-> "",
           result |-> 0]

\* a frame written to a socket: src is the process it stems from (0: the
\* server itself), n its payload (chunk number, exit code, close reason)
Frame(t, src, n) == [type |-> t, src |-> src, n |-> n, status |-> ""]
StatusFrame(st, src) == [type |-> "status", src |-> src, n |-> 0, status |-> st]

\* what an HTTP handler on a session answered: the route, the caller, the
\* session id it named and the outcome
Reply(op, u, sid, result) == [op |-> op, user |-> u, sid |-> sid, result |-> result]
NoReply == Reply("none", NoUser, 0, "none")

\* an inbound unit: the channel it came in on (a terminal socket, a chat
\* socket, the stdout of an assistant process) and its kind
Inbound(chan, kind) == [chan |-> chan, kind |-> kind]
NoInbound == Inbound("none", "none")

\* the fields of the line the delete route logs (part_001 192)
Logged(sessionId, workspaceId) ==
  [sessionId |-> sessionId, workspaceId |-> workspaceId]
NoLogged == Logged(0, 0)
SessionOps == {"kill", "status", "get", "patch", "delete"}

\* ------------------------------------------- assistant protocol records
\* A record of the assistant's stream-json protocol, as far as
\* processClaudeEvent reads it.  A content is undefined, a string or an
\* array of blocks; "" stands for a missing (or empty) string field.
EventTypes == {"assistant", "message", "content_block_start", "content_block",
               "tool_use", "tool_result", "error", "result", "system"}
BlockTypes == {"text", "tool_use", "image"}
Texts      == {"", "hi"}
ToolIds    == {"", "t1"}

Block(t, text, id) == [type |-> t, text |-> text, id |-> id]
NoBlock  == Block("undefined", "", "")
Blocks   == {Block("text", "hi", ""), Block("tool_use", "", "t1"),
             Block("image", "", "")}

Content(kind, str, blocks) == [kind |-> kind, str |-> str, blocks |-> blocks]
NoContent == Content("undefined", "", <<>>)
Contents  == {NoContent}
             \cup {Content("string", t, <<>>) : t \in Texts}
             \cup {Content("array", "", bs) :
                     bs \in UNION {[1..n -> Blocks] : n \in 0..MaxBlocks}}

\* message stands for event.message?.content (for an error record: for
\* event.message itself, a string), tool_use for event.tool_use?.id
ClaudeEvent(t, message, content, block, id, tool_use_id, tool_use) ==
  [type |-> t, message |-> message, content |-> content,
   content_block |-> block, id |-> id, tool_use_id |-> tool_use_id,
   tool_use |-> tool_use]
NoEvent == ClaudeEvent("none", NoContent, NoContent, NoBlock, "", "", "")

ClaudeEvents ==
  {ClaudeEvent(t, m, c, NoBlock, "", "", "") :
     t \in {"assistant", "message"}, m \in Contents, c \in Contents}
  \cup
  {ClaudeEvent(t, NoContent, NoContent, b, "", "", "") :
     t \in {"content_block_start", "content_block"}, b \in Blocks \cup {NoBlock}}
  \cup
  {ClaudeEvent("tool_use", NoContent, NoContent, NoBlock, i, "", j) :
     i \in ToolIds, j \in {"", "t2"}}
  \cup
  {ClaudeEvent("tool_result", NoContent, c, NoBlock, i, j, "") :
     c \in {NoContent, Content("string", "hi", <<>>)},
     i \in {"", "t2"}, j \in ToolIds}
  \cup
  {ClaudeEvent("error", m, NoContent, NoBlock, "", "", "") :
     m \in {NoContent, Content("string", "hi", <<>>)}}
  \cup
  {ClaudeEvent(t, NoContent, c, NoBlock, "", "", "") :
     t \in {"result", "system"},
     c \in {NoContent, Content("string", "hi", <<>>)}}

\* ------------------------------------------------- terminal_sessions table
getTerminalSession(id) == rows[id]

createTerminalSession(id, u) ==
  [rows EXCEPT ![id] = [exists |-> TRUE, user_id |-> u, status |-> "created",
                        workspace_id |-> None, project_name |-> 0]]

\* UPDATE ... WHERE id = ? changes nothing when the row is gone
updateTerminalSession(tbl, id, status) ==
  IF tbl[id].exists THEN [tbl EXCEPT ![id].status = status] ELSE tbl

deleteTerminalSession(id) == [rows EXCEPT ![id] = NoRow]

getUserTerminalSessions(u) ==
  {s \in RowIds : rows[s].exists /\ rows[s].user_id = u}

\* ------------------------------------------------- web client: auth store
OpIds        == 1..MaxOps
Tokens       == {"t1", "t2"}
NoToken      == "null"
NoWebUser    == "null"
FailStatuses == {401, 500}       \* 500: any failure other than a 401
InitialStore == [token |-> NoToken, user |-> NoWebUser,
                 isAuthenticated |-> FALSE, isLoading |-> TRUE]
NoOp == [kind |-> "none", pc |-> "none", outcome |-> "none"]


\* ------------------------------------------ assistant stdout: JSON lines
\* The characters the assistant writes, and their UTF-8 bytes: a double
\* quote, a newline and a space take one byte, E_ACUTE takes two.  REPL is
\* U+FFFD, which decoding puts in place of bytes that are not a whole
\* character.
Chars == {"QUOTE", "LF", "SP", "E_ACUTE"}
CharStreams == UNION {[1..n -> Chars] : n \in 0..MaxChars}

RECURSIVE encode(_)
encode(chars) ==
  IF chars = <<>> THEN <<>>
  ELSE (CASE Head(chars) = "QUOTE"   -> <<"0x22">>
          [] Head(chars) = "LF"      -> <<"0x0A">>
          [] Head(chars) = "SP"      -> <<"0x20">>
          [] Head(chars) = "E_ACUTE" -> <<"0xC3", "0xA9">>)
       \o encode(Tail(chars))

\* Buffer.prototype.toString(): UTF-8 decoding of one chunk by itself
RECURSIVE decode(_)
decode(bytes) ==
  IF bytes = <<>> THEN <<>>
  ELSE IF Head(bytes) = "0xC3"
       THEN IF Len(bytes) >= 2 /\ bytes[2] = "0xA9"
            THEN <<"E_ACUTE">> \o decode(SubSeq(bytes, 3, Len(bytes)))
            ELSE <<"REPL">> \o decode(Tail(bytes))
       ELSE (CASE Head(bytes) = "0x22" -> <<"QUOTE">>
               [] Head(bytes) = "0x0A" -> <<"LF">>
               [] Head(bytes) = "0x20" -> <<"SP">>
               [] Head(bytes) = "0xA9" -> <<"REPL">>)
            \o decode(Tail(bytes))

\* String.prototype.split("\n")
RECURSIVE split(_)
split(str) ==
  IF \A i \in 1..Len(str) : str[i] # "LF" THEN <<str>>
  ELSE LET i == CHOOSE j \in 1..Len(str) :
                  str[j] = "LF" /\ \A k \in 1..(j - 1) : str[k] # "LF"
       IN <<SubSeq(str, 1, i - 1)>> \o split(SubSeq(str, i + 1, Len(str)))

\* String.prototype.trim()
RECURSIVE trim(_)
trim(str) ==
  IF str = <<>> THEN str
  ELSE IF Head(str) \in {"SP", "LF"} THEN trim(Tail(str))
  ELSE IF str[Len(str)] \in {"SP", "LF"} THEN trim(SubSeq(str, 1, Len(str) - 1))
  ELSE str

\* JSON.parse on this alphabet: the JSON texts are the string literals,
\* with whitespace around them allowed; the value is the string's content
parses(line) ==
  LET t == trim(line)
  IN /\ Len(t) >= 2
     /\ t[1] = "QUOTE" /\ t[Len(t)] = "QUOTE"
     /\ \A i \in 2..(Len(t) - 1) : t[i] # "QUOTE"
parse(line) == LET t == trim(line) IN SubSeq(t, 2, Len(t) - 1)

\* the closure of handleUserMessage: buffer, and the records handed to
\* processClaudeEvent so far
Framing(buffer, parsed) == [buffer |-> buffer, parsed |-> parsed]

\* chat.ts 341-360: the loop over the complete lines
RECURSIVE processLines(_, _)
processLines(parsed, lines) ==
  IF lines = <<>> THEN parsed
  ELSE processLines(IF trim(Head(lines)) # <<>> /\ parses(Head(lines))
                    THEN Append(parsed, parse(Head(lines)))
                    ELSE parsed,
                    Tail(lines))

\* chat.ts 332-361: claudeProcess.stdout.on("data")
onStdoutData(f, data) ==
  LET lines == split(f.buffer \o decode(data))
  IN Framing(lines[Len(lines)],
             processLines(f.parsed, SubSeq(lines, 1, Len(lines) - 1)))

\* chat.ts 381-389: the remaining buffer at close
onCloseFlush(f) ==
  Framing(<<>>, IF trim(f.buffer) # <<>> /\ parses(f.buffer)
                THEN Append(f.parsed, parse(f.buffer))
                ELSE f.parsed)


\* ------------------------------------------------- process environments
\* An environment maps the names that are set to their values; a value is a
\* sequence of path segments or tokens, <<>> being the empty string.
EnvKeys    == {"ANTHROPIC_API_KEY", "HOME", "PATH", "CLAUDE_CONFIG_DIR"}
EnvValues  == {<<>>, <<"/srv">>}
ServerEnvs == UNION {[D -> EnvValues] : D \in SUBSET EnvKeys}
NoEnv      == <<>>

\* delete env[key]
without(env, key) == [k \in DOMAIN env \ {key} |-> env[k]]
\* the entries with a non-empty value (chat.ts 79: `&& value`)
truthy(env) == [k \in {j \in DOMAIN env : env[j] # <<>>} |-> env[k]]
\* {...env, ...over}
with(env, over) ==
  [k \in DOMAIN env \cup DOMAIN over |-> IF k \in DOMAIN over THEN over[k] ELSE env[k]]

\* path.join(base, ...segments): empty segments are skipped
join(base, segments) == base \o SelectSeq(segments, LAMBDA x : x # "")

\* chat.ts 31-34
getUserClaudeConfigDir(env, userId) ==
  LET userHome == IF "HOME" \in DOMAIN env /\ env["HOME"] # <<>>
                  THEN env["HOME"] ELSE <<"/tmp">>
  IN join(userHome, <<".claudelet-users", userId>>)

\* config.ts 145
claudeConfigPath == <<"data", "claude-config">>

\* chat.ts 76-84
loginEnv(env, userId) ==
  LET configDir == getUserClaudeConfigDir(env, userId)
  IN with(truthy(without(env, "ANTHROPIC_API_KEY")),
          [HOME |-> configDir, CLAUDE_CONFIG_DIR |-> configDir])

\* an assistant environment that keeps the server's API key
claudeEnvKeepsKey(env, userId) ==
  LET userClaudeConfig == getUserClaudeConfigDir(env, userId)
  IN with(env,
          [PATH |-> (IF "PATH" \in DOMAIN env THEN env["PATH"] ELSE <<"undefined">>)
                      \o <<":/usr/local/bin">>,
           HOME |-> userClaudeConfig, CLAUDE_CONFIG_DIR |-> userClaudeConfig,
           CLAUDE_CODE_REMOTE |-> <<"1">>, NO_COLOR |-> <<"1">>,
           FORCE_COLOR |-> <<"0">>])

\* chat.ts 305-323
claudeEnv(env, userId) ==
  LET userClaudeConfig == getUserClaudeConfigDir(env, userId)
  IN with(without(env, "ANTHROPIC_API_KEY"),
          [PATH |-> (IF "PATH" \in DOMAIN env THEN env["PATH"] ELSE <<"undefined">>)
                      \o <<":/usr/local/bin">>,
           HOME |-> userClaudeConfig, CLAUDE_CONFIG_DIR |-> userClaudeConfig,
           CLAUDE_CODE_REMOTE |-> <<"1">>, NO_COLOR |-> <<"1">>,
           FORCE_COLOR |-> <<"0">>])

\* terminal.ts 59-76
terminalEnv(env, userId) ==
  with(env,
       [TERM |-> <<"xterm-256color">>, COLORTERM |-> <<"truecolor">>,
        HOME |-> <<"workspace">>,
        CLAUDE_CONFIG_DIR |-> join(claudeConfigPath, <<userId>>),
        CLAUDE_CODE_REMOTE |-> <<"1">>, USER |-> <<"user">>])


\* ------------------------------------------------------------------ Init
Init ==
  /\ rows = [s \in RowIds |-> NoRow]
  /\ dirs = {}
  /\ issued = 0
  /\ activePtys = [s \in SessionIds |-> None]
  /\ ptys = [p \in PtyIds |-> NoPty]
  /\ tsock = [k \in TermSocks |-> NoSock]
  /\ activeProcesses = [s \in SessionIds |-> None]
  /\ procs = [q \in ProcIds |-> NoProc]
  /\ csock = [k \in ChatSocks |-> NoSock]
  /\ reply = NoReply
  /\ reported = {}
  /\ repos = [r \in RepoIds |-> NoRepo]
  /\ repoDirs = {}
  /\ workspaces = [w \in WsIds |-> NoWorkspace]
  /\ wsDirs = {}
  /\ worktrees = [w \in WsIds |-> NoWorktree]
  /\ calls = [c \in CallIds |-> NoCall]
  /\ event = NoEvent
  /\ evSock = "CLOSED"
  /\ outbound = <<>>
  /\ pendingLogins = [u \in Users |-> None]
  /\ logins = [a \in LoginIds |-> NoLogin]
  /\ processEnv = NoEnv
  /\ store = InitialStore
  /\ ops = [o \in OpIds |-> NoOp]
  /\ logoutCalls = 0
  /\ stdoutStream = <<>>
  /\ consumed = 0
  /\ jsonBuffer = <<>>
  /\ records = <<>>
  /\ streamState = "none"
  /\ inbound = NoInbound
  /\ gitStdout = <<>>
  /\ branchList = <<>>
  /\ logged = NoLogged

\* ------------------------------------------------------- session routes
\* POST /sessions
CreateSession(u) ==
  /\ issued < MaxSessions
  /\ Cardinality(getUserTerminalSessions(u)) < maxSessionsPerUser
  /\ LET id == issued + 1 IN
       /\ issued' = id
       /\ dirs' = dirs \cup {id}
       /\ rows' = createTerminalSession(id, u)
       /\ reply' = Reply("create", u, id, "ok")
  /\ UNCHANGED <<extVars, processEnv, reported, repoVars, termVars, chatVars>>

\* a limit test that lets the user go one over
quotaReachedOffByOne(u) ==
  Cardinality(getUserTerminalSessions(u)) > maxSessionsPerUser

\* part_001 65-66: existingSessions.length >= config.maxSessionsPerUser
quotaReached(u) ==
  Cardinality(getUserTerminalSessions(u)) >= maxSessionsPerUser

\* POST /sessions with an optional workspaceId (part_001 57-126); the
\* handler awaits nothing, so the limit test and the insert are one step
CreateSessionFor(u, w) ==
  /\ issued < Cardinality(RowIds)
  /\ LET id == issued + 1 IN
       IF quotaReached(u)
       THEN /\ reply' = Reply("create", u, 0, "quota")
            /\ UNCHANGED <<rows, dirs, issued>>
       ELSE IF w # None /\ ~workspaces[w].exists
       THEN /\ reply' = Reply("create", u, 0, "not_found")
            /\ UNCHANGED <<rows, dirs, issued>>
       ELSE IF w # None /\ repos[workspaces[w].repository_id].user_id # u
       THEN /\ reply' = Reply("create", u, 0, "denied")
            /\ UNCHANGED <<rows, dirs, issued>>
       ELSE /\ issued' = id
            /\ dirs' = IF w = None THEN dirs \cup {id} ELSE dirs
            /\ rows' = [createTerminalSession(id, u) EXCEPT
                          ![id].workspace_id = w]
            /\ reply' = Reply("create", u, id, "ok")
  /\ UNCHANGED <<extVars, processEnv, reported, repoVars, termVars, chatVars>>

\* a delete that removes whatever directory the row's workspace_path names
DeleteSessionRemovesPath(u, id) ==
  /\ getTerminalSession(id).exists
  /\ getTerminalSession(id).user_id = u
  /\ dirs' = dirs \ {id}
  /\ wsDirs' = wsDirs \ {getTerminalSession(id).workspace_id}
  /\ rows' = deleteTerminalSession(id)
  /\ logged' = Logged(id, getTerminalSession(id).workspace_id)
  /\ reply' = Reply("delete", u, id, "ok")
  /\ UNCHANGED <<normVars, loginVars, webVars, frameVars, msgVars, branchVars,
                 processEnv, reported, repos, repoDirs, workspaces, worktrees,
                 calls, issued, termVars, chatVars>>

\* DELETE /sessions/:id (part_001 166-196): the directory is removed for a
\* standalone session only, then the row, then the line is logged
DeleteSession(u, id) ==
  /\ getTerminalSession(id).exists
  /\ getTerminalSession(id).user_id = u
  /\ dirs' = IF getTerminalSession(id).workspace_id = None THEN dirs \ {id}
                                                               ELSE dirs
  /\ rows' = deleteTerminalSession(id)
  /\ logged' = Logged(id, getTerminalSession(id).workspace_id)
  /\ reply' = Reply("delete", u, id, "ok")
  /\ UNCHANGED <<normVars, loginVars, webVars, frameVars, msgVars, branchVars,
                 processEnv, reported, repoVars, issued, termVars, chatVars>>

\* ------------------------------------------------------ terminal routes
\* indexes handed out in order of creation
FreshPty      == CHOOSE p \in PtyIds : ptys[p].state = "none"
                   /\ \A o \in PtyIds : o < p => ptys[o].state # "none"
FreshTermSock == CHOOSE k \in TermSocks : tsock[k].state = "NONE"
                   /\ \A o \in TermSocks : o < k => tsock[o].state # "NONE"

\* the process has not exited (a signal may already be on its way)
PtyAlive(p) == ptys[p].state \in {"running", "killed"}

\* sockets whose connect handler registered onData/onExit on PTY p
Attached(p) == {k \in TermSocks : tsock[k].bound = p}

\* socket.send(frame) on an open socket
send(sk, frame) == [sk EXCEPT !.frames = Append(@, frame)]

\* socket.close(code, reason): readyState becomes CLOSING at once
close(sk, code) == [sk EXCEPT !.state = "CLOSING", !.closeCode = code]

\* terminal.ts 32-38 / chat.ts 170-176: no user for the token
rejectUnauthorized(s, u) ==
  close(send([NoSock EXCEPT !.state = "OPEN", !.sid = s, !.user = u],
             Frame("error", 0, 4001)), 4001)

\* terminal.ts 40-46 / chat.ts 178-184: no such session, or not the owner's
rejectNotFound(s, u) ==
  close(send([NoSock EXCEPT !.state = "OPEN", !.sid = s, !.user = u],
             Frame("error", 0, 4004)), 4004)

\* an ownership test that only asks whether the session exists
ownsAnyone(u, s) == getTerminalSession(s).exists

owns(u, s) == getTerminalSession(s).exists /\ getTerminalSession(s).user_id = u

\* a lookup that never finds the registered PTY
lookupPtyMiss(s) == None

\* terminal.ts 54: activePtys.get(sessionId)
lookupPty(s) == activePtys[s]

\* an output handler that writes every chunk twice
outputHandlerTwice(sk, p, n) ==
  IF sk.state = "OPEN"
  THEN send(send(sk, Frame("output", p, n)), Frame("output", p, n))
  ELSE sk

\* terminal.ts 94-98: PTY output -> WebSocket
outputHandler(sk, p, n) ==
  IF sk.state = "OPEN" THEN send(sk, Frame("output", p, n)) ELSE sk

\* an exit handler that reports the exit but leaves the socket open
exitNotifyNoClose(sk, p, exitCode) ==
  IF sk.state = "OPEN" THEN send(sk, Frame("exit", p, exitCode)) ELSE sk

\* terminal.ts 107-110: the socket part of exitHandler
exitNotify(sk, p, exitCode) ==
  IF sk.state = "OPEN"
  THEN close(send(sk, Frame("exit", p, exitCode)), 1000)
  ELSE sk

\* GET /:sessionId/ws rejected before any session work (4001 / 4004)
TermConnectReject(s, u) ==
  /\ \E k \in TermSocks : tsock[k].state = "NONE"
  /\ u = NoUser \/ ~owns(u, s)
  /\ tsock' = [tsock EXCEPT ![FreshTermSock] =
                 IF u = NoUser THEN rejectUnauthorized(s, u)
                               ELSE rejectNotFound(s, u)]
  /\ UNCHANGED <<extVars, processEnv, reported, reply, repoVars, rows, dirs, issued, activePtys, ptys, chatVars>>

\* a connect handler that replays the PTY's earlier output to the new socket
TermConnectReplay(s, u) ==
  /\ \E k \in TermSocks : tsock[k].state = "NONE"
  /\ u # NoUser /\ owns(u, s)
  /\ LET k    == FreshTermSock
         have == lookupPty(s)
     IN
       /\ have = None => \E p \in PtyIds : ptys[p].state = "none"
       /\ LET p == IF have = None THEN FreshPty ELSE have IN
            /\ IF have = None
               THEN /\ ptys' = [ptys EXCEPT ![p] =
                                  [NoPty EXCEPT !.state = "running", !.sid = s,
                                                !.env = terminalEnv(processEnv, u)]]
                    /\ activePtys' = [activePtys EXCEPT ![s] = p]
                    /\ rows' = updateTerminalSession(rows, s, "running")
               ELSE UNCHANGED <<ptys, activePtys, rows>>
            /\ tsock' = [tsock EXCEPT ![k] =
                 [NoSock EXCEPT !.state = "OPEN", !.sid = s, !.user = u,
                     !.bound = p,
                     !.frames = <<Frame("connected", 0, 0)>>
                                  \o [i \in 1..ptys[p].emitted |->
                                        Frame("output", p, i)]]]
  /\ UNCHANGED <<extVars, processEnv, reported, reply, repoVars, dirs, issued, chatVars>>

\* GET /:sessionId/ws, authenticated owner: lookup-or-spawn, then attach
TermConnect(s, u) ==
  /\ \E k \in TermSocks : tsock[k].state = "NONE"
  /\ u # NoUser /\ owns(u, s)
  /\ LET k    == FreshTermSock
         have == lookupPty(s)
     IN
       /\ have = None => \E p \in PtyIds : ptys[p].state = "none"
       /\ LET p == IF have = None THEN FreshPty ELSE have IN
            /\ IF have = None
               THEN /\ ptys' = [ptys EXCEPT ![p] =
                                  [NoPty EXCEPT !.state = "running", !.sid = s,
                                                !.env = terminalEnv(processEnv, u)]]
                    /\ activePtys' = [activePtys EXCEPT ![s] = p]
                    /\ rows' = updateTerminalSession(rows, s, "running")
               ELSE UNCHANGED <<ptys, activePtys, rows>>
            /\ tsock' = [tsock EXCEPT ![k] =
                 send([NoSock EXCEPT !.state = "OPEN", !.sid = s, !.user = u,
                                     !.bound = p],
                      Frame("connected", 0, 0))]
  /\ UNCHANGED <<extVars, processEnv, reported, reply, repoVars, dirs, issued, chatVars>>

\* GET /:sessionId/ws where pty.spawn throws: the catch block (155-159)
TermConnectSpawnFail(s, u) ==
  /\ \E k \in TermSocks : tsock[k].state = "NONE"
  /\ u # NoUser /\ owns(u, s)
  /\ lookupPty(s) = None
  /\ tsock' = [tsock EXCEPT ![FreshTermSock] =
       close(send([NoSock EXCEPT !.state = "OPEN", !.sid = s, !.user = u],
                  Frame("error", 0, 4500)), 4500)]
  /\ UNCHANGED <<extVars, processEnv, reported, reply, repoVars, rows, dirs, issued, activePtys, ptys, chatVars>>

\* the PTY emits a chunk: every registered outputHandler runs
PtyData(p) ==
  /\ PtyAlive(p)
  /\ ptys[p].emitted < MaxChunks
  /\ LET n == ptys[p].emitted + 1 IN
       /\ ptys' = [ptys EXCEPT ![p].emitted = n]
       /\ tsock' = [k \in TermSocks |->
                      IF k \in Attached(p) THEN outputHandler(tsock[k], p, n)
                                           ELSE tsock[k]]
  /\ UNCHANGED <<extVars, processEnv, reported, reply, repoVars, rows, dirs, issued, activePtys, chatVars>>

\* an exit handler that marks the session stopped and leaves the entry
PtyExitKeepsEntry(p, exitCode) ==
  /\ PtyAlive(p)
  /\ ptys' = [ptys EXCEPT ![p].state = "exited", ![p].exitCode = exitCode]
  /\ rows' = updateTerminalSession(rows, ptys[p].sid, "stopped")
  /\ tsock' = [k \in TermSocks |->
                 IF k \in Attached(p) THEN exitNotify(tsock[k], p, exitCode)
                                      ELSE tsock[k]]
  /\ UNCHANGED <<extVars, processEnv, reported, reply, repoVars, dirs, issued, activePtys, chatVars>>

\* the PTY process exits: every registered exitHandler runs (101-112)
PtyExit(p, exitCode) ==
  /\ PtyAlive(p)
  /\ ptys' = [ptys EXCEPT ![p].state = "exited", ![p].exitCode = exitCode]
  /\ activePtys' = [activePtys EXCEPT ![ptys[p].sid] = None]
  /\ rows' = updateTerminalSession(rows, ptys[p].sid, "stopped")
  /\ tsock' = [k \in TermSocks |->
                 IF k \in Attached(p) THEN exitNotify(tsock[k], p, exitCode)
                                      ELSE tsock[k]]
  /\ UNCHANGED <<extVars, processEnv, reported, reply, repoVars, dirs, issued, chatVars>>

\* POST /:sessionId/kill (164-185) with a registered PTY
TermKill(s, u) ==
  /\ owns(u, s)
  /\ lookupPty(s) # None
  /\ ptys' = [ptys EXCEPT ![lookupPty(s)].state =
                IF @ = "running" THEN "killed" ELSE @]
  /\ activePtys' = [activePtys EXCEPT ![s] = None]
  /\ rows' = updateTerminalSession(rows, s, "stopped")
  /\ reply' = Reply("kill", u, s, "ok")
  /\ UNCHANGED <<extVars, processEnv, reported, repoVars, dirs, issued, tsock, chatVars>>

\* a kill handler that persists `stopped` whether or not a PTY is registered
TermKillIdleStops(s, u) ==
  /\ owns(u, s)
  /\ lookupPty(s) = None
  /\ rows' = updateTerminalSession(rows, s, "stopped")
  /\ reply' = Reply("kill", u, s, "ok")
  /\ UNCHANGED <<extVars, processEnv, reported, repoVars, dirs, issued, termVars, chatVars>>

\* POST /:sessionId/kill by the owner when no PTY is registered (175-184):
\* the `if (ptyProcess)` body is skipped and success is returned
TermKillIdle(s, u) ==
  /\ owns(u, s)
  /\ lookupPty(s) = None
  /\ reply' = Reply("kill", u, s, "ok")
  /\ UNCHANGED <<extVars, processEnv, reported, repoVars, rows, dirs, issued, termVars, chatVars>>

\* POST /:sessionId/kill on a session that is unknown or someone else's (171-173)
TermKillNotFound(s, u) ==
  /\ ~owns(u, s)
  /\ reply' = Reply("kill", u, s, "not_found")
  /\ UNCHANGED <<extVars, processEnv, reported, repoVars, rows, dirs, issued, termVars, chatVars>>

\* GET /:sessionId/status (188-206): reads only
TermStatus(s, u) ==
  /\ reply' = Reply("status", u, s, IF owns(u, s) THEN "ok" ELSE "not_found")
  /\ reported' = IF owns(u, s)
                 THEN {<<s, IF activePtys[s] # None THEN "running"
                                                   ELSE rows[s].status>>}
                 ELSE {}
  /\ UNCHANGED <<extVars, processEnv, repoVars, rows, dirs, issued, termVars, chatVars>>

\* GET /sessions/:id (78-91): reads only
GetSession(u, id) ==
  /\ reply' = Reply("get", u, id, IF owns(u, id) THEN "ok" ELSE "not_found")
  /\ reported' = IF owns(u, id) THEN {<<id, rows[id].status>>} ELSE {}
  /\ UNCHANGED <<extVars, processEnv, repoVars, rows, dirs, issued, termVars, chatVars>>

\* PATCH /sessions/:id (94-112): the owner renames the session
PatchSession(u, id) ==
  /\ IF owns(u, id)
     THEN /\ rows' = [rows EXCEPT ![id].project_name = 1]
          /\ reply' = Reply("patch", u, id, "ok")
     ELSE /\ rows' = rows
          /\ reply' = Reply("patch", u, id, "not_found")
  /\ UNCHANGED <<extVars, processEnv, reported, repoVars, dirs, issued, termVars, chatVars>>

\* DELETE /sessions/:id on a session that is unknown or someone else's (122-124)
DeleteSessionNotFound(u, id) ==
  /\ ~owns(u, id)
  /\ reply' = Reply("delete", u, id, "not_found")
  /\ UNCHANGED <<extVars, processEnv, reported, repoVars, rows, dirs, issued, termVars, chatVars>>

\* fastify.authenticate answers 401 before the route handler runs
HttpUnauthorized(op, id) ==
  /\ reply' = Reply(op, NoUser, id, "unauthorized")
  /\ UNCHANGED <<extVars, processEnv, reported, repoVars, rows, dirs, issued, termVars, chatVars>>

\* the peer closes or the connection drops: readyState leaves OPEN
TermPeerClose(k) ==
  /\ tsock[k].state = "OPEN"
  /\ tsock' = [tsock EXCEPT ![k].state = "CLOSING"]
  /\ UNCHANGED <<extVars, processEnv, reported, reply, repoVars, rows, dirs, issued, activePtys, ptys, chatVars>>

\* a close handler that tears the PTY down, as the chat close handler does
TermSocketCloseKills(k) ==
  /\ tsock[k].state = "CLOSING"
  /\ tsock[k].bound # None
  /\ tsock' = [tsock EXCEPT ![k].state = "CLOSED"]
  /\ ptys' = [ptys EXCEPT ![tsock[k].bound].state =
                IF @ = "running" THEN "killed" ELSE @]
  /\ activePtys' = [activePtys EXCEPT ![tsock[k].sid] = None]
  /\ UNCHANGED <<extVars, processEnv, reported, reply, repoVars, rows, dirs, issued, chatVars>>

\* socket.on("close") (145-149), registered once the socket is attached:
\* logs, does not touch the PTY
TermSocketClose(k) ==
  /\ tsock[k].state = "CLOSING"
  /\ tsock[k].bound # None
  /\ tsock' = [tsock EXCEPT ![k].state = "CLOSED"]
  /\ UNCHANGED <<extVars, processEnv, reported, reply, repoVars, rows, dirs, issued, activePtys, ptys, chatVars>>

\* ---------------------------------------------------------- chat routes
FreshProc     == CHOOSE q \in ProcIds : procs[q].state = "none"
                   /\ \A o \in ProcIds : o < q => procs[o].state # "none"
FreshChatSock == CHOOSE k \in ChatSocks : csock[k].state = "NONE"
                   /\ \A o \in ChatSocks : o < k => csock[o].state # "NONE"

\* kinds of outbound event one parsed stdout record is normalized to
OutKinds == {"assistant", "tool_use"}

\* the child has not closed (SIGTERM may already have been sent)
ProcAlive(q) == procs[q].state \in {"running", "signalled"}

\* chat.ts 253-257
sendMessage(sk, frame) == IF sk.state = "OPEN" THEN send(sk, frame) ELSE sk

\* chat.ts 259-265: the process part and the registry part
abortKill(tbl, s) ==
  IF activeProcesses[s] # None
  THEN [tbl EXCEPT ![activeProcesses[s]].state =
          IF @ = "running" THEN "signalled" ELSE @]
  ELSE tbl
abortDelete(s) == [activeProcesses EXCEPT ![s] = None]

\* GET /chat/:sessionId/ws rejected (4001 / 4004)
ChatConnectReject(s, u) ==
  /\ \E k \in ChatSocks : csock[k].state = "NONE"
  /\ u = NoUser \/ ~owns(u, s)
  /\ csock' = [csock EXCEPT ![FreshChatSock] =
                 IF u = NoUser THEN rejectUnauthorized(s, u)
                               ELSE rejectNotFound(s, u)]
  /\ UNCHANGED <<extVars, processEnv, reported, reply, repoVars, rows, dirs, issued, termVars, activeProcesses, procs>>

\* GET /chat/:sessionId/ws, authenticated owner (186-208)
ChatConnect(s, u) ==
  /\ \E k \in ChatSocks : csock[k].state = "NONE"
  /\ u # NoUser /\ owns(u, s)
  /\ csock' = [csock EXCEPT ![FreshChatSock] =
       sendMessage(
         sendMessage([NoSock EXCEPT !.state = "OPEN", !.sid = s, !.user = u],
                     StatusFrame("connected", 0)),
         Frame("system", 0, 0))]
  /\ rows' = updateTerminalSession(rows, s, "running")
  /\ UNCHANGED <<extVars, processEnv, reported, reply, repoVars, dirs, issued, termVars, activeProcesses, procs>>

\* {type: "user"} frame: handleUserMessage (267-327)
ChatUser(k) ==
  /\ csock[k].state = "OPEN"
  /\ \E q \in ProcIds : procs[q].state = "none"
  /\ LET q == FreshProc
         s == csock[k].sid
     IN
       /\ csock' = [csock EXCEPT ![k] =
            sendMessage(sendMessage(@, Frame("user", 0, 0)),
                        StatusFrame("thinking", q))]
       /\ procs' = [procs EXCEPT ![q] =
            [NoProc EXCEPT !.state = "running", !.sid = s, !.sock = k,
                           !.env = claudeEnv(processEnv, csock[k].user)]]
       /\ activeProcesses' = [activeProcesses EXCEPT ![s] = q]
  /\ UNCHANGED <<extVars, processEnv, reported, reply, repoVars, rows, dirs, issued, termVars>>

\* {type: "abort"} frame (225-227) with a registered process
ChatAbort(k) ==
  /\ csock[k].state = "OPEN"
  /\ activeProcesses[csock[k].sid] # None
  /\ procs' = abortKill(procs, csock[k].sid)
  /\ activeProcesses' = abortDelete(csock[k].sid)
  /\ UNCHANGED <<extVars, processEnv, reported, reply, repoVars, rows, dirs, issued, termVars, csock>>

\* {type: "abort"} frame (225-227) with no registered process:
\* abortCurrentProcess finds nothing and returns
ChatAbortIdle(k) ==
  /\ csock[k].state = "OPEN"
  /\ activeProcesses[csock[k].sid] = None
  /\ procs' = abortKill(procs, csock[k].sid)
  /\ activeProcesses' = abortDelete(csock[k].sid)
  /\ UNCHANGED <<extVars, processEnv, reported, reply, repoVars, rows, dirs, issued, termVars, csock>>

\* stdout chunk holding one whole line (332-361): parsed and forwarded
ProcStdout(q, kind) ==
  /\ ProcAlive(q)
  /\ procs[q].emitted < MaxRecords
  /\ procs[q].buffer = ""
  /\ procs' = [procs EXCEPT ![q].emitted = @ + 1]
  /\ csock' = [csock EXCEPT ![procs[q].sock] = sendMessage(@, Frame(kind, q, 0))]
  /\ UNCHANGED <<extVars, processEnv, reported, reply, repoVars, rows, dirs, issued, termVars, activeProcesses>>

\* stdout chunk holding a record without its newline: kept in buffer (339)
ProcStdoutPartial(q, kind) ==
  /\ ProcAlive(q)
  /\ procs[q].emitted < MaxRecords
  /\ procs[q].buffer = ""
  /\ procs' = [procs EXCEPT ![q].emitted = @ + 1, ![q].buffer = kind]
  /\ UNCHANGED <<extVars, processEnv, reported, reply, repoVars, rows, dirs, issued, termVars, activeProcesses, csock>>

\* stdout chunk "\n" ending the buffered record
ProcStdoutNewline(q) ==
  /\ ProcAlive(q)
  /\ procs[q].buffer # ""
  /\ procs' = [procs EXCEPT ![q].buffer = ""]
  /\ csock' = [csock EXCEPT ![procs[q].sock] =
                 sendMessage(@, Frame(procs[q].buffer, q, 0))]
  /\ UNCHANGED <<extVars, processEnv, reported, reply, repoVars, rows, dirs, issued, termVars, activeProcesses>>

\* stderr chunk that is not a Debug/Info line (363-375)
ProcStderr(q) ==
  /\ ProcAlive(q)
  /\ procs[q].emitted < MaxRecords
  /\ procs' = [procs EXCEPT ![q].emitted = @ + 1]
  /\ csock' = [csock EXCEPT ![procs[q].sock] =
                 sendMessage(@, Frame("error", q, 1))]
  /\ UNCHANGED <<extVars, processEnv, reported, reply, repoVars, rows, dirs, issued, termVars, activeProcesses>>

\* claudeProcess.on("error") (401-413): the spawn failed
ProcSpawnError(q) ==
  /\ procs[q].state = "running"
  /\ procs[q].emitted = 0
  /\ procs' = [procs EXCEPT ![q].state = "failed"]
  /\ activeProcesses' = [activeProcesses EXCEPT ![procs[q].sid] = None]
  /\ csock' = [csock EXCEPT ![procs[q].sock] =
       sendMessage(sendMessage(@, Frame("error", q, 2)), StatusFrame("error", q))]
  /\ UNCHANGED <<extVars, processEnv, reported, reply, repoVars, rows, dirs, issued, termVars>>

\* a close handler that reports `idle` after a clean exit only
ProcCloseIdleOnSuccess(q, code) ==
  /\ ProcAlive(q) \/ procs[q].state = "failed"
  /\ procs' = [procs EXCEPT ![q].state = "closed", ![q].exitCode = code,
                            ![q].buffer = ""]
  /\ activeProcesses' = [activeProcesses EXCEPT ![procs[q].sid] = None]
  /\ csock' = [csock EXCEPT ![procs[q].sock] =
       LET parsed == IF procs[q].buffer # ""
                     THEN sendMessage(@, Frame(procs[q].buffer, q, 0))
                     ELSE @
       IN IF code = 0 THEN sendMessage(parsed, StatusFrame("idle", q))
                      ELSE parsed]
  /\ UNCHANGED <<extVars, processEnv, reported, reply, repoVars, rows, dirs, issued, termVars>>

\* claudeProcess.on("close") (377-399)
ProcClose(q, code) ==
  /\ ProcAlive(q) \/ procs[q].state = "failed"
  /\ procs' = [procs EXCEPT ![q].state = "closed", ![q].exitCode = code,
                            ![q].buffer = ""]
  /\ activeProcesses' = [activeProcesses EXCEPT ![procs[q].sid] = None]
  /\ csock' = [csock EXCEPT ![procs[q].sock] =
       sendMessage(IF procs[q].buffer # ""
                   THEN sendMessage(@, Frame(procs[q].buffer, q, 0))
                   ELSE @,
                   StatusFrame("idle", q))]
  /\ UNCHANGED <<extVars, processEnv, reported, reply, repoVars, rows, dirs, issued, termVars>>

\* the peer closes or the connection drops: readyState leaves OPEN
ChatPeerClose(k) ==
  /\ csock[k].state = "OPEN"
  /\ csock' = [csock EXCEPT ![k].state = "CLOSING"]
  /\ UNCHANGED <<extVars, processEnv, reported, reply, repoVars, rows, dirs, issued, termVars, activeProcesses, procs>>

\* socket.on("close") (240-244), registered on accepted connections only
\* (the server never closes those itself): abortCurrentProcess(sessionId)
ChatSocketClose(k) ==
  /\ csock[k].state = "CLOSING"
  /\ csock[k].closeCode = 0
  /\ csock' = [csock EXCEPT ![k].state = "CLOSED"]
  /\ procs' = abortKill(procs, csock[k].sid)
  /\ activeProcesses' = abortDelete(csock[k].sid)
  /\ UNCHANGED <<extVars, processEnv, reported, reply, repoVars, rows, dirs, issued, termVars>>

NextSessions ==
  \/ \E u \in Users : CreateSession(u)
  \/ \E u \in Users, s \in SessionIds : DeleteSession(u, s)

NextTerm ==
  \/ \E s \in SessionIds, u \in Users \cup {NoUser} : TermConnectReject(s, u)
  \/ \E s \in SessionIds, u \in Users : TermConnect(s, u)
  \/ \E s \in SessionIds, u \in Users : TermConnectSpawnFail(s, u)
  \/ \E p \in PtyIds : PtyData(p)
  \/ \E p \in PtyIds, c \in ExitCodes : PtyExit(p, c)
  \/ \E s \in SessionIds, u \in Users : TermKill(s, u)
  \/ \E k \in TermSocks : TermPeerClose(k)
  \/ \E k \in TermSocks : TermSocketClose(k)

NextChat ==
  \/ \E s \in SessionIds, u \in Users \cup {NoUser} : ChatConnectReject(s, u)
  \/ \E s \in SessionIds, u \in Users : ChatConnect(s, u)
  \/ \E k \in ChatSocks : ChatUser(k)
  \/ \E k \in ChatSocks : ChatAbort(k)
  \/ \E q \in ProcIds, kind \in OutKinds : ProcStdout(q, kind)
  \/ \E q \in ProcIds, kind \in OutKinds : ProcStdoutPartial(q, kind)
  \/ \E q \in ProcIds : ProcStdoutNewline(q)
  \/ \E q \in ProcIds : ProcStderr(q)
  \/ \E q \in ProcIds : ProcSpawnError(q)
  \/ \E q \in ProcIds, c \in ExitCodes : ProcClose(q, c)
  \/ \E k \in ChatSocks : ChatPeerClose(k)
  \/ \E k \in ChatSocks : ChatSocketClose(k)

\* --------------------------------------------------- repository routes
\* A handler of repositories.ts runs up to its first `await` in one step.
\* The git command it waits for takes effect in a step of its own (the
\* command is another process), and the rest of the handler runs when the
\* event loop delivers the command's result; other handlers run in between.

\* ids handed out in order; an id a call was given is never given again
FreshCall == CHOOSE c \in CallIds : calls[c].op = "none"
               /\ \A o \in CallIds : o < c => calls[o].op # "none"
RepoIdsUsed == {calls[c].repo : c \in {x \in CallIds : calls[x].op = "add_repo"}}
WsIdsUsed   == {calls[c].ws : c \in {x \in CallIds : calls[x].op = "create_ws"}}
FreshRepo == CHOOSE r \in RepoIds : r \notin RepoIdsUsed
               /\ \A o \in RepoIds : o < r => o \in RepoIdsUsed
FreshWs   == CHOOSE w \in WsIds : w \notin WsIdsUsed
               /\ \A o \in WsIds : o < w => o \in WsIdsUsed

Call(op, pc, u, r, w, b, url, todo) ==
  [op |-> op, pc |-> pc, user |-> u, repo |-> r, ws |-> w, branch |-> b,
   url |-> url, todo |-> todo, last |-> "", result |-> 0]

\* return from the handler with an HTTP status; `last` keeps the await the
\* handler returned from
finish(call, code) ==
  [call EXCEPT !.pc = "done", !.last = call.pc, !.result = code]

\* the accessors of db/index.js for the two tables
getRepositoryByUrl(u, url) ==
  {r \in RepoIds : repos[r].exists /\ repos[r].user_id = u
                     /\ repos[r].git_url = url}
getWorkspaceByBranch(r, b) ==
  {w \in WsIds : workspaces[w].exists /\ workspaces[w].repository_id = r
                   /\ workspaces[w].branch = b}
getRepositoryWorkspaces(r) ==
  {w \in WsIds : workspaces[w].exists /\ workspaces[w].repository_id = r}
getWorkspaceSessions(w) ==
  {s \in RowIds : rows[s].exists /\ rows[s].workspace_id = w}
createRepository(r, u, url) ==
  [repos EXCEPT ![r] = [exists |-> TRUE, user_id |-> u, git_url |-> url]]
createWorkspace(w, r, b) ==
  [workspaces EXCEPT ![w] = [exists |-> TRUE, repository_id |-> r, branch |-> b]]
deleteWorkspace(w) == [workspaces EXCEPT ![w] = NoWorkspace]
\* ON DELETE CASCADE removes the repository's workspaces with it
deleteRepository(r) ==
  [w \in WsIds |-> IF workspaces[w].repository_id = r THEN NoWorkspace
                                                       ELSE workspaces[w]]

ownsRepo(u, r) == repos[r].exists /\ repos[r].user_id = u

\* sessions.filter((s) => s.status === "running").length > 0
hasActiveSessions(w) ==
  \E s \in getWorkspaceSessions(w) : rows[s].status = "running"

\* a catch block of the add handler that leaves the clone on disk
cleanupCloneKeep(r) == repoDirs

\* repositories.ts 195-200: rmSync(localPath) when it exists
cleanupClone(r) == repoDirs \ {r}

\* POST /repositories answered 409 (161-165)
AddRepoConflict(u, url) ==
  /\ getRepositoryByUrl(u, url) # {}
  /\ reply' = Reply("add_repo", u, 0, "conflict")
  /\ UNCHANGED <<extVars, processEnv, reported, repoVars, rows, dirs, issued, termVars, chatVars>>

\* POST /repositories up to `await cloneRepository` (153-177)
AddRepoStart(u, url) ==
  /\ \E c \in CallIds : calls[c].op = "none"
  /\ \E r \in RepoIds : r \notin RepoIdsUsed
  /\ getRepositoryByUrl(u, url) = {}
  /\ calls' = [calls EXCEPT ![FreshCall] =
                 Call("add_repo", "clone", u, FreshRepo, None, "", url, {})]
  /\ UNCHANGED <<extVars, processEnv, reported, reply, repos, repoDirs, workspaces, wsDirs, worktrees,
                 rows, dirs, issued, termVars, chatVars>>

\* git clone runs: it leaves the clone at localPath, or fails
GitClone(c, ok) ==
  /\ calls[c].op = "add_repo" /\ calls[c].pc = "clone"
  /\ repoDirs' = IF ok THEN repoDirs \cup {calls[c].repo} ELSE repoDirs
  /\ calls' = [calls EXCEPT ![c].pc = IF ok THEN "cloned" ELSE "clone_failed"]
  /\ UNCHANGED <<extVars, processEnv, reported, reply, repos, workspaces, wsDirs, worktrees,
                 rows, dirs, issued, termVars, chatVars>>

\* the handler resumes after the clone: on to `await getCurrentBranch`
\* (180), or into the catch block (194-207)
AddRepoCloned(c) ==
  /\ calls[c].op = "add_repo" /\ calls[c].pc \in {"cloned", "clone_failed"}
  /\ IF calls[c].pc = "cloned"
     THEN /\ calls' = [calls EXCEPT ![c].pc = "branch"]
          /\ UNCHANGED repoDirs
     ELSE /\ repoDirs' = cleanupClone(calls[c].repo)
          /\ calls' = [calls EXCEPT ![c] = finish(@, 500)]
  /\ UNCHANGED <<extVars, processEnv, reported, reply, repos, workspaces, wsDirs, worktrees,
                 rows, dirs, issued, termVars, chatVars>>

\* the handler resumes after git rev-parse: createRepository and the
\* answer (183-193), or the catch block when either of the two failed
AddRepoFinish(c, branchOk, dbOk) ==
  /\ calls[c].op = "add_repo" /\ calls[c].pc = "branch"
  /\ IF branchOk /\ dbOk
     THEN /\ repos' = createRepository(calls[c].repo, calls[c].user, calls[c].url)
          /\ calls' = [calls EXCEPT ![c] = finish(@, 200)]
          /\ UNCHANGED repoDirs
     ELSE /\ repoDirs' = cleanupClone(calls[c].repo)
          /\ calls' = [calls EXCEPT ![c] = finish(@, 500)]
          /\ UNCHANGED repos
  /\ UNCHANGED <<extVars, processEnv, reported, reply, workspaces, wsDirs, worktrees,
                 rows, dirs, issued, termVars, chatVars>>

\* git refuses to check a branch out in two worktrees of one repository
checkedOut(r, b) ==
  \E w \in WsIds : worktrees[w].repo = r /\ worktrees[w].branch = b

\* POST /:id/workspaces answered 404 or 409 before anything is created
\* (306-315)
CreateWorkspaceRefused(u, r, b) ==
  /\ ~ownsRepo(u, r) \/ getWorkspaceByBranch(r, b) # {}
  /\ reply' = Reply("create_ws", u, r,
                    IF ~ownsRepo(u, r) THEN "not_found" ELSE "conflict")
  /\ UNCHANGED <<extVars, processEnv, reported, repoVars, rows, dirs, issued, termVars, chatVars>>

\* POST /:id/workspaces up to `await createWorktree` (297-325)
CreateWorkspaceStart(u, r, b) ==
  /\ \E c \in CallIds : calls[c].op = "none"
  /\ \E w \in WsIds : w \notin WsIdsUsed
  /\ ownsRepo(u, r)
  /\ getWorkspaceByBranch(r, b) = {}
  /\ calls' = [calls EXCEPT ![FreshCall] =
                 Call("create_ws", "add", u, r, FreshWs, b, "", {})]
  /\ UNCHANGED <<extVars, processEnv, reported, reply, repos, repoDirs, workspaces, wsDirs, worktrees,
                 rows, dirs, issued, termVars, chatVars>>

\* createWorktree (105-120): one of the three `git worktree add` attempts
\* registers the worktree and checks the branch out, or all of them fail
GitWorktreeAdd(c, ok) ==
  /\ calls[c].op = "create_ws" /\ calls[c].pc = "add"
  /\ LET r   == calls[c].repo
         b   == calls[c].branch
         w   == calls[c].ws
         can == ok /\ r \in repoDirs /\ ~checkedOut(r, b)
     IN
       /\ worktrees' = IF can THEN [worktrees EXCEPT ![w] =
                                     [repo |-> r, branch |-> b]]
                              ELSE worktrees
       /\ wsDirs' = IF can THEN wsDirs \cup {w} ELSE wsDirs
       /\ calls' = [calls EXCEPT ![c].pc = IF can THEN "added" ELSE "add_failed"]
  /\ UNCHANGED <<extVars, processEnv, reported, reply, repos, repoDirs, workspaces,
                 rows, dirs, issued, termVars, chatVars>>

\* the handler resumes after createWorktree: createWorkspace and the answer
\* (328-336), or into the catch block up to `await removeWorktree` (337-340)
CreateWorkspaceAdded(c, dbOk) ==
  /\ calls[c].op = "create_ws" /\ calls[c].pc \in {"added", "add_failed"}
  /\ IF calls[c].pc = "added" /\ dbOk
     THEN /\ workspaces' = createWorkspace(calls[c].ws, calls[c].repo,
                                           calls[c].branch)
          /\ calls' = [calls EXCEPT ![c] = finish(@, 200)]
     ELSE /\ calls' = [calls EXCEPT ![c].pc = "rollback", ![c].last = calls[c].pc]
          /\ UNCHANGED workspaces
  /\ UNCHANGED <<extVars, processEnv, reported, reply, repos, repoDirs, wsDirs, worktrees,
                 rows, dirs, issued, termVars, chatVars>>

\* a removal that never unregisters the worktree
gitRemoveNothing(w) == worktrees

\* git worktree remove --force: the registration goes (with the directory)
gitRemove(w) == [worktrees EXCEPT ![w] = NoWorktree]

\* removeWorktree (122-128) runs for a call that awaits it; it fails, and
\* the failure is swallowed, when the path is not a registered worktree
GitWorktreeRemove(c) ==
  /\ calls[c].pc \in {"rollback", "remove"}
  /\ LET w == calls[c].ws IN
       /\ worktrees' = gitRemove(w)
       /\ wsDirs' = IF worktrees[w] # NoWorktree THEN wsDirs \ {w} ELSE wsDirs
  /\ calls' = [calls EXCEPT ![c].pc = IF @ = "rollback" THEN "rolled"
                                                        ELSE "removed"]
  /\ UNCHANGED <<extVars, processEnv, reported, reply, repos, repoDirs, workspaces,
                 rows, dirs, issued, termVars, chatVars>>

\* the catch block resumes (341-350): rmSync(worktreePath), answer 500
CreateWorkspaceRolledBack(c) ==
  /\ calls[c].op = "create_ws" /\ calls[c].pc = "rolled"
  /\ wsDirs' = wsDirs \ {calls[c].ws}
  /\ calls' = [calls EXCEPT ![c] = [finish(@, 500) EXCEPT !.last = calls[c].last]]
  /\ UNCHANGED <<extVars, processEnv, reported, reply, repos, repoDirs, workspaces, worktrees,
                 rows, dirs, issued, termVars, chatVars>>

Min(S) == CHOOSE x \in S : \A y \in S : x <= y

\* DELETE /:repoId/workspaces/:workspaceId answered 404 or 400 (363-378)
DeleteWorkspaceRefused(u, r, w) ==
  /\ \/ ~ownsRepo(u, r)
     \/ ~workspaces[w].exists \/ workspaces[w].repository_id # r
     \/ hasActiveSessions(w)
  /\ reply' = Reply("delete_ws", u, w,
       IF ~ownsRepo(u, r) \/ ~workspaces[w].exists
            \/ workspaces[w].repository_id # r
       THEN "not_found" ELSE "active")
  /\ UNCHANGED <<extVars, processEnv, reported, repoVars, rows, dirs, issued, termVars, chatVars>>

\* DELETE /:repoId/workspaces/:workspaceId up to `await removeWorktree`
\* (359-382)
DeleteWorkspaceStart(u, r, w) ==
  /\ \E c \in CallIds : calls[c].op = "none"
  /\ ownsRepo(u, r)
  /\ workspaces[w].exists /\ workspaces[w].repository_id = r
  /\ ~hasActiveSessions(w)
  /\ calls' = [calls EXCEPT ![FreshCall] =
                 Call("delete_ws", "remove", u, r, w, "", "", {})]
  /\ UNCHANGED <<extVars, processEnv, reported, reply, repos, repoDirs, workspaces, wsDirs, worktrees,
                 rows, dirs, issued, termVars, chatVars>>

\* the handler resumes after removeWorktree (384-393)
DeleteWorkspaceFinish(c) ==
  /\ calls[c].op = "delete_ws" /\ calls[c].pc = "removed"
  /\ wsDirs' = wsDirs \ {calls[c].ws}
  /\ workspaces' = deleteWorkspace(calls[c].ws)
  /\ calls' = [calls EXCEPT ![c] = finish(@, 200)]
  /\ UNCHANGED <<extVars, processEnv, reported, reply, repos, repoDirs, worktrees,
                 rows, dirs, issued, termVars, chatVars>>

\* DELETE /:id answered 404 or 400 (412-429)
DeleteRepoRefused(u, r) ==
  /\ ~ownsRepo(u, r) \/ \E w \in getRepositoryWorkspaces(r) : hasActiveSessions(w)
  /\ reply' = Reply("delete_repo", u, r,
                    IF ~ownsRepo(u, r) THEN "not_found" ELSE "active")
  /\ UNCHANGED <<extVars, processEnv, reported, repoVars, rows, dirs, issued, termVars, chatVars>>

\* 442-451: the clone directory goes, and git's worktree registrations
\* inside it; the record goes, and its workspaces cascade
removeRepo(c, call, r) ==
  /\ repoDirs' = repoDirs \ {r}
  /\ worktrees' = [w \in WsIds |-> IF worktrees[w].repo = r THEN NoWorktree
                                                              ELSE worktrees[w]]
  /\ repos' = [repos EXCEPT ![r] = NoRepo]
  /\ workspaces' = deleteRepository(r)
  /\ calls' = [calls EXCEPT ![c] = finish(call, 200)]

\* DELETE /:id up to the first `await removeWorktree` of its loop (408-435),
\* or to its end when the repository has no workspace
DeleteRepoStart(u, r) ==
  /\ \E c \in CallIds : calls[c].op = "none"
  /\ ownsRepo(u, r)
  /\ \A w \in getRepositoryWorkspaces(r) : ~hasActiveSessions(w)
  /\ LET c    == FreshCall
         todo == getRepositoryWorkspaces(r)
     IN
       IF todo = {}
       THEN removeRepo(c, Call("delete_repo", "start", u, r, None, "", "", {}), r)
       ELSE /\ calls' = [calls EXCEPT ![c] =
                 Call("delete_repo", "remove", u, r, Min(todo), "", "", todo)]
            /\ UNCHANGED <<repos, repoDirs, workspaces, worktrees>>
  /\ UNCHANGED <<extVars, processEnv, reported, reply, wsDirs, rows, dirs, issued, termVars, chatVars>>

\* the loop resumes after removeWorktree (436-438): rmSync the worktree
\* directory, then the next workspace or the end of the handler (442-451)
DeleteRepoNext(c) ==
  /\ calls[c].op = "delete_repo" /\ calls[c].pc = "removed"
  /\ LET r    == calls[c].repo
         rest == calls[c].todo \ {calls[c].ws}
     IN
       /\ wsDirs' = wsDirs \ {calls[c].ws}
       /\ IF rest = {}
          THEN removeRepo(c, calls[c], r)
          ELSE /\ calls' = [calls EXCEPT ![c].pc = "remove", ![c].ws = Min(rest),
                                         ![c].todo = rest]
               /\ UNCHANGED <<repos, repoDirs, workspaces, worktrees>>
  /\ UNCHANGED <<extVars, processEnv, reported, reply, rows, dirs, issued, termVars, chatVars>>

\* POST /sessions {workspaceId}
CreateWorkspaceSession(u, w) ==
  /\ issued < MaxSessions
  /\ CreateSessionFor(u, w)

\* repositories, workspaces, and sessions started in workspaces
\* the workspace routes are explored on one repository
NextRepo ==
  \/ \E u \in Users, url \in Urls : AddRepoConflict(u, url)
  \/ RepoIdsUsed = {} /\ \E u \in Users, url \in Urls : AddRepoStart(u, url)
  \/ \E c \in CallIds, ok \in BOOLEAN : GitClone(c, ok)
  \/ \E c \in CallIds : AddRepoCloned(c)
  \/ \E c \in CallIds, branchOk, dbOk \in BOOLEAN : AddRepoFinish(c, branchOk, dbOk)
  \/ \E u \in Users, r \in RepoIds, b \in Branches : CreateWorkspaceRefused(u, r, b)
  \/ \E u \in Users, r \in RepoIds, b \in Branches : CreateWorkspaceStart(u, r, b)
  \/ \E c \in CallIds, ok \in BOOLEAN : GitWorktreeAdd(c, ok)
  \/ \E c \in CallIds, dbOk \in BOOLEAN : CreateWorkspaceAdded(c, dbOk)
  \/ \E c \in CallIds : GitWorktreeRemove(c)
  \/ \E c \in CallIds : CreateWorkspaceRolledBack(c)
  \/ \E u \in Users, r \in RepoIds, w \in WsIds : DeleteWorkspaceRefused(u, r, w)
  \/ \E u \in Users, r \in RepoIds, w \in WsIds : DeleteWorkspaceStart(u, r, w)
  \/ \E c \in CallIds : DeleteWorkspaceFinish(c)
  \/ \E u \in Users, r \in RepoIds : DeleteRepoRefused(u, r)
  \/ \E u \in Users, r \in RepoIds : DeleteRepoStart(u, r)
  \/ \E c \in CallIds : DeleteRepoNext(c)
  \/ \E u \in Users, w \in WsIds : CreateWorkspaceSession(u, w)
  \/ \E s \in SessionIds, u \in Users : ChatConnect(s, u)

SpecRepo == Init /\ [][NextRepo]_vars

\* sessions in workspaces and standalone sessions, created and deleted
\* while workspaces and repositories come and go
NextWsSessions == NextRepo \/ NextSessions

SpecWsSessions == Init /\ [][NextWsSessions]_vars

\* POST /repositories alone, with requests that overlap
NextAddRepo ==
  \/ \E u \in Users, url \in Urls : AddRepoConflict(u, url)
  \/ \E u \in Users, url \in Urls : AddRepoStart(u, url)
  \/ \E c \in CallIds, ok \in BOOLEAN : GitClone(c, ok)
  \/ \E c \in CallIds : AddRepoCloned(c)
  \/ \E c \in CallIds, branchOk, dbOk \in BOOLEAN : AddRepoFinish(c, branchOk, dbOk)

SpecAddRepo == Init /\ [][NextAddRepo]_vars

\* every route addressed by a session id, called by owners and by others
NextAccess ==
  \/ \E s \in SessionIds, u \in Users \cup {NoUser} : TermConnectReject(s, u)
  \/ \E s \in SessionIds, u \in Users : TermConnect(s, u)
  \/ \E s \in SessionIds, u \in Users \cup {NoUser} : ChatConnectReject(s, u)
  \/ \E s \in SessionIds, u \in Users : ChatConnect(s, u)
  \/ \E s \in SessionIds, u \in Users : TermKill(s, u)
  \/ \E s \in SessionIds, u \in Users : TermKillIdle(s, u)
  \/ \E s \in SessionIds, u \in Users : TermKillNotFound(s, u)
  \/ \E s \in SessionIds, u \in Users : TermStatus(s, u)
  \/ \E s \in SessionIds, u \in Users : GetSession(u, s)
  \/ \E s \in SessionIds, u \in Users : PatchSession(u, s)
  \/ \E s \in SessionIds, u \in Users : DeleteSessionNotFound(u, s)
  \/ \E s \in SessionIds, op \in SessionOps : HttpUnauthorized(op, s)

SpecAccess == Init /\ [][NextSessions \/ NextAccess]_vars

\* session creation and deletion alone, with room to pass the limit
NextQuota ==
  \/ \E u \in Users : CreateSessionFor(u, None)
  \/ \E u \in Users, s \in RowIds : DeleteSession(u, s)

SpecQuota == Init /\ [][NextQuota]_vars

\* starting and stopping processes: connect, kill, abort, exit
NextStop ==
  \/ \E s \in SessionIds, u \in Users : TermConnect(s, u)
  \/ \E s \in SessionIds, u \in Users : TermKill(s, u)
  \/ \E s \in SessionIds, u \in Users : TermKillIdle(s, u)
  \/ \E p \in PtyIds, c \in ExitCodes : PtyExit(p, c)
  \/ \E s \in SessionIds, u \in Users : ChatConnect(s, u)
  \/ \E k \in ChatSocks : ChatUser(k)
  \/ \E k \in ChatSocks : ChatAbort(k)
  \/ \E k \in ChatSocks : ChatAbortIdle(k)
  \/ \E q \in ProcIds, c \in ExitCodes : ProcClose(q, c)

SpecStop == Init /\ [][NextSessions \/ NextStop]_vars

\* ------------------------------------------- chat.ts: event normalization
\* an outbound chat message (the timestamp is left out)
ChatMessage(t, content, toolId) == [type |-> t, content |-> content, toolId |-> toolId]

\* JavaScript's a || b
Falsy(c) == c.kind = "undefined" \/ (c.kind = "string" /\ c.str = "")
OrContent(a, b) == IF Falsy(a) THEN b ELSE a
OrString(a, b)  == IF a = "" THEN b ELSE a

\* chat.ts 427-443: the loop over the blocks of an array content
RECURSIVE sendBlocks(_, _)
sendBlocks(sk, blocks) ==
  IF blocks = <<>> THEN sk
  ELSE LET block == Head(blocks)
           next  == IF block.type = "text"
                    THEN sendMessage(sk, ChatMessage("assistant", block.text, ""))
                    ELSE IF block.type = "tool_use"
                    THEN sendMessage(sk, ChatMessage("tool_use", "", block.id))
                    ELSE sk
       IN sendBlocks(next, Tail(blocks))

\* a normalization that forwards the final result record as well
processClaudeEventEchoResult(sk, e) ==
  CASE e.type \in {"assistant", "message"} ->
         LET content == OrContent(e.message, e.content)
         IN IF content.kind = "array" THEN sendBlocks(sk, content.blocks)
            ELSE IF content.kind = "string"
            THEN sendMessage(sk, ChatMessage("assistant", content.str, ""))
            ELSE sk
    [] e.type \in {"content_block_start", "content_block"} ->
         IF e.content_block.type = "text"
         THEN sendMessage(sk, ChatMessage("assistant", e.content_block.text, ""))
         ELSE IF e.content_block.type = "tool_use"
         THEN sendMessage(sk, ChatMessage("tool_use", "", e.content_block.id))
         ELSE sk
    [] e.type = "tool_use" ->
         sendMessage(sk, ChatMessage("tool_use", "", OrString(e.id, e.tool_use)))
    [] e.type = "tool_result" ->
         sendMessage(sk, ChatMessage("tool_result", "",
                                     OrString(e.tool_use_id, e.id)))
    [] e.type = "error" ->
         sendMessage(sk, ChatMessage("error",
                                     OrString(e.message.str, "Unknown error"), ""))
    [] e.type = "result" ->
         sendMessage(sk, ChatMessage("assistant", e.content.str, ""))
    [] OTHER -> sk

\* chat.ts 416-519
processClaudeEvent(sk, e) ==
  CASE e.type \in {"assistant", "message"} ->
         LET content == OrContent(e.message, e.content)
         IN IF content.kind = "array" THEN sendBlocks(sk, content.blocks)
            ELSE IF content.kind = "string"
            THEN sendMessage(sk, ChatMessage("assistant", content.str, ""))
            ELSE sk
    [] e.type \in {"content_block_start", "content_block"} ->
         IF e.content_block.type = "text"
         THEN sendMessage(sk, ChatMessage("assistant", e.content_block.text, ""))
         ELSE IF e.content_block.type = "tool_use"
         THEN sendMessage(sk, ChatMessage("tool_use", "", e.content_block.id))
         ELSE sk
    [] e.type = "tool_use" ->
         sendMessage(sk, ChatMessage("tool_use", "", OrString(e.id, e.tool_use)))
    [] e.type = "tool_result" ->
         sendMessage(sk, ChatMessage("tool_result", "",
                                     OrString(e.tool_use_id, e.id)))
    [] e.type = "error" ->
         sendMessage(sk, ChatMessage("error",
                                     OrString(e.message.str, "Unknown error"), ""))
    [] e.type = "result" -> sk
    [] OTHER -> sk

\* one parsed record is handed to processClaudeEvent, for a socket that is
\* open or has left OPEN meanwhile; the function keeps nothing between two
\* calls (its third parameter is unused), so one call is followed here
Normalize(e, st) ==
  /\ event = NoEvent
  /\ event' = e
  /\ evSock' = st
  /\ outbound' = processClaudeEvent([state |-> st, frames |-> <<>>], e).frames
  /\ UNCHANGED <<msgVars, logVars, branchVars, frameVars, webVars, processEnv, rows, dirs, issued, termVars, chatVars, reply, reported, repoVars,
                 loginVars>>

NextNormalize ==
  \E e \in ClaudeEvents, st \in {"OPEN", "CLOSING", "CLOSED"} : Normalize(e, st)

SpecNormalize == Init /\ [][NextNormalize]_vars


\* ------------------------------------------------- chat.ts: POST /login
\* One login attempt is one call of the handler: its PTY, the variables
\* `output` and `resolved` of its promise body, its 30-second timer and
\* what its promise was settled with.  The handler awaits nothing before it
\* returns the promise, so it is one step; the PTY's data and exit callbacks
\* and the timer callback are steps of their own.
FreshLogin == CHOOSE a \in LoginIds : logins[a].state = "none"
                /\ \A o \in LoginIds : o < a => logins[o].state # "none"

\* the login PTY has not exited (SIGHUP may already have been sent)
LoginAlive(a) == logins[a].state \in {"running", "killed"}

\* output.match(/https:\/\/claude\.ai\/oauth\/authorize[^\s\x1b\x07]*/):
\* a chunk either holds text matching the pattern or it does not
urlMatch(output) == \E i \in 1..Len(output) : output[i] = "url"

\* resolve(value) of a promise: the first call settles it, later calls do
\* nothing
resolve(l, value) ==
  [l EXCEPT !.outcome = IF @ = "pending" THEN value ELSE @]

\* loginPty.kill(): SIGHUP; signalling a process that is gone does nothing
killLogin(l) == [l EXCEPT !.state = IF @ = "running" THEN "killed" ELSE @]

\* POST /login (64-97, 134): cancel the recorded login of the user, spawn,
\* record, arm the timer
Login(u) ==
  /\ \E a \in LoginIds : logins[a].state = "none"
  /\ LET a        == FreshLogin
         existing == pendingLogins[u]
         killed   == IF existing # None
                     THEN [logins EXCEPT ![existing] = killLogin(@)]
                     ELSE logins
     IN /\ logins' = [killed EXCEPT ![a] =
                        [NoLogin EXCEPT !.state = "running", !.user = u,
                                        !.timer = "armed",
                                        !.env = loginEnv(processEnv, u)]]
        /\ pendingLogins' = [pendingLogins EXCEPT ![u] = a]
  /\ UNCHANGED <<msgVars, logVars, branchVars, frameVars, webVars, processEnv, rows, dirs, issued, termVars, chatVars, reply, reported, repoVars, normVars>>

\* POST /login when pty.spawn throws inside the promise body (87): the
\* promise is rejected; the recorded login was cancelled before
LoginSpawnFail(u) ==
  /\ \E a \in LoginIds : logins[a].state = "none"
  /\ LET a        == FreshLogin
         existing == pendingLogins[u]
         killed   == IF existing # None
                     THEN [logins EXCEPT ![existing] = killLogin(@)]
                     ELSE logins
     IN /\ logins' = [killed EXCEPT ![a] =
                        resolve([NoLogin EXCEPT !.state = "failed", !.user = u],
                                "rejected")]
        /\ pendingLogins' = [pendingLogins EXCEPT ![u] = None]
  /\ UNCHANGED <<msgVars, logVars, branchVars, frameVars, webVars, processEnv, rows, dirs, issued, termVars, chatVars, reply, reported, repoVars, normVars>>

\* loginPty.onData (99-111)
LoginData(a, chunk) ==
  /\ LoginAlive(a)
  /\ Len(logins[a].output) < MaxLoginChunks
  /\ LET output == Append(logins[a].output, chunk)
         l      == [logins[a] EXCEPT !.output = output]
     IN logins' = [logins EXCEPT ![a] =
          IF urlMatch(output) /\ ~l.resolved
          THEN resolve([l EXCEPT !.resolved = TRUE], "loginUrl")
          ELSE l]
  /\ UNCHANGED <<msgVars, logVars, branchVars, frameVars, webVars, processEnv, rows, dirs, issued, termVars, chatVars, reply, reported, repoVars, normVars,
                 pendingLogins>>

\* a timer callback that only acts when no URL was found and then kills
\* without answering
LoginTimeoutSilent(a) ==
  /\ logins[a].timer = "armed"
  /\ logins' = [logins EXCEPT ![a] =
       LET l == [@ EXCEPT !.timer = "fired"]
       IN IF ~l.resolved
          THEN killLogin([l EXCEPT !.resolved = TRUE])
          ELSE l]
  /\ UNCHANGED <<msgVars, logVars, branchVars, frameVars, webVars, processEnv, rows, dirs, issued, termVars, chatVars, reply, reported, repoVars, normVars,
                 pendingLogins>>

\* the 30-second timer (133-146)
LoginTimeout(a) ==
  /\ logins[a].timer = "armed"
  /\ logins' = [logins EXCEPT ![a] =
       LET l == [@ EXCEPT !.timer = "fired"]
       IN IF ~l.resolved
          THEN IF urlMatch(l.output)
               THEN resolve([l EXCEPT !.resolved = TRUE], "loginUrl")
               ELSE resolve(killLogin([l EXCEPT !.resolved = TRUE]), "timed out")
          ELSE l]
  /\ UNCHANGED <<msgVars, logVars, branchVars, frameVars, webVars, processEnv, rows, dirs, issued, termVars, chatVars, reply, reported, repoVars, normVars,
                 pendingLogins>>

\* loginPty.onExit (113-131); a PTY ended by a signal reports exit code 0
\* or not, depending on the platform
LoginExit(a, exitCode) ==
  /\ LoginAlive(a)
  /\ pendingLogins' = [pendingLogins EXCEPT ![logins[a].user] = None]
  /\ logins' = [logins EXCEPT ![a] =
       LET l == [@ EXCEPT !.state = "exited"]
       IN IF ~l.resolved
          THEN IF exitCode = 0 THEN resolve(l, "success")
               ELSE IF urlMatch(l.output) THEN resolve(l, "loginUrl")
               ELSE resolve(l, "failed")
          ELSE l]
  /\ UNCHANGED <<msgVars, logVars, branchVars, frameVars, webVars, processEnv, rows, dirs, issued, termVars, chatVars, reply, reported, repoVars, normVars>>

NextLogin ==
  \/ \E u \in Users : Login(u)
  \/ \E u \in Users : LoginSpawnFail(u)
  \/ \E a \in LoginIds, chunk \in LoginChunks : LoginData(a, chunk)
  \/ \E a \in LoginIds, c \in ExitCodes : LoginExit(a, c)
  \/ \E a \in LoginIds : LoginTimeout(a)

SpecLogin == Init /\ [][NextLogin]_vars

\* setTimeout fires its callback once the 30 seconds have passed
SpecLoginLive == SpecLogin /\ \A a \in LoginIds : WF_vars(LoginTimeout(a))


\* ------------------------------------------------------- server restart
\* GET /sessions (part_001 46-54): the rows of the caller, as stored
ListSessions(u) ==
  /\ reply' = Reply("list", u, 0, "ok")
  /\ reported' = {<<s, rows[s].status>> : s \in getUserTerminalSessions(u)}
  /\ UNCHANGED <<extVars, processEnv, repoVars, rows, dirs, issued, termVars, chatVars>>

\* The server process ends and a new one starts: the Maps of terminal.ts 12
\* and chat.ts 27-29 are created empty, every connection is gone, and no
\* callback of the new process will ever run for a process, timer or git
\* command of the old one.  The database and the disk are as they were.
Restart ==
  /\ activePtys' = [s \in SessionIds |-> None]
  /\ activeProcesses' = [s \in SessionIds |-> None]
  /\ pendingLogins' = [u \in Users |-> None]
  /\ ptys' = [p \in PtyIds |->
               IF PtyAlive(p) THEN [ptys[p] EXCEPT !.state = "lost"] ELSE ptys[p]]
  /\ procs' = [q \in ProcIds |->
                IF ProcAlive(q) \/ procs[q].state = "failed"
                THEN [procs[q] EXCEPT !.state = "lost"] ELSE procs[q]]
  /\ logins' = [a \in LoginIds |->
                 IF logins[a].state = "none" THEN logins[a]
                 ELSE [logins[a] EXCEPT
                         !.state = IF LoginAlive(a) THEN "lost" ELSE @,
                         !.timer = IF @ = "armed" THEN "lost" ELSE @]]
  /\ tsock' = [k \in TermSocks |->
                 IF tsock[k].state \in {"OPEN", "CLOSING"}
                 THEN [tsock[k] EXCEPT !.state = "CLOSED"] ELSE tsock[k]]
  /\ csock' = [k \in ChatSocks |->
                 IF csock[k].state \in {"OPEN", "CLOSING"}
                 THEN [csock[k] EXCEPT !.state = "CLOSED"] ELSE csock[k]]
  /\ calls' = [c \in CallIds |->
                 IF calls[c].pc \in {"none", "done"} THEN calls[c]
                 ELSE [calls[c] EXCEPT !.pc = "lost"]]
  /\ reply' = NoReply
  /\ reported' = {}
  /\ UNCHANGED <<rows, dirs, issued, repos, repoDirs, workspaces, wsDirs,
                 worktrees, normVars, processEnv, webVars, frameVars,
                 msgVars, branchVars, logVars>>

\* terminal sessions across restarts, with every way of looking at a session
NextRestart ==
  \/ \E s \in SessionIds, u \in Users : TermConnect(s, u)
  \/ \E p \in PtyIds, c \in ExitCodes : PtyExit(p, c)
  \/ \E s \in SessionIds, u \in Users : TermKill(s, u)
  \/ \E s \in SessionIds, u \in Users : TermStatus(s, u)
  \/ \E s \in SessionIds, u \in Users : GetSession(u, s)
  \/ \E u \in Users : ListSessions(u)
  \/ Restart

SpecRestart == Init /\ [][NextSessions \/ NextRestart]_vars


\* ------------------------------------------------------- spawn environments
\* the server process starts with the environment it was given
Boot(env) ==
  /\ processEnv = NoEnv
  /\ issued = 0
  /\ \A a \in LoginIds : logins[a].state = "none"
  /\ processEnv' = env
  /\ UNCHANGED <<msgVars, logVars, branchVars, frameVars, webVars, rows, dirs, issued, termVars, chatVars, reply, reported, repoVars,
                 normVars, loginVars>>

\* every spawn of a process on behalf of a user, in any server environment
NextEnv ==
  \/ \E env \in ServerEnvs \ {NoEnv} : Boot(env)
  \/ \E u \in Users : CreateSession(u)
  \/ \E s \in SessionIds, u \in Users : TermConnect(s, u)
  \/ \E s \in SessionIds, u \in Users : ChatConnect(s, u)
  \/ \E k \in ChatSocks : ChatUser(k)
  \/ \E u \in Users : Login(u)

SpecEnv == Init /\ [][NextEnv]_vars


\* --------------------------------------------- web client: the auth store
\* One entry of ops is one call of checkAuth or logout.  A call runs to its
\* `await` of the API request in one step and continues when the request
\* settles; what runs in microtasks right after a response (the catch
\* block, the logout() that request() starts on a 401) belongs to the step
\* of that response.
WebState == [store |-> store, ops |-> ops, logoutCalls |-> logoutCalls]

SetWebState(w) ==
  /\ store' = w.store
  /\ ops' = w.ops
  /\ logoutCalls' = w.logoutCalls

HasFreeOp(os) == \E o \in OpIds : os[o].pc = "none"
FreshOp(os) == CHOOSE o \in OpIds : os[o].pc = "none"
                 /\ \A n \in OpIds : n < o => os[n].pc # "none"

Op(kind, pc, outcome) == [kind |-> kind, pc |-> pc, outcome |-> outcome]

\* set({ token: null, user: null, isAuthenticated: false })
clearAuth(st) ==
  [st EXCEPT !.token = NoToken, !.user = NoWebUser, !.isAuthenticated = FALSE]

\* logout() up to its await (api.ts 127-137): with a token it sends
\* POST /api/auth/logout and waits; without one it clears the store at once
logout(w) ==
  IF w.store.token # NoToken
  THEN [w EXCEPT !.ops[FreshOp(w.ops)] = Op("logout", "awaiting", "none"),
                 !.logoutCalls = @ + 1]
  ELSE [w EXCEPT !.ops[FreshOp(w.ops)] = Op("logout", "done", "noToken"),
                 !.store = clearAuth(@)]

\* request() on a response that is not ok (api.ts 31-38): a 401 starts
\* logout() without awaiting it, then the error is thrown
requestFailed(w, status) ==
  IF status = 401 /\ HasFreeOp(w.ops) THEN logout(w) ELSE w

\* zustand persist: the stored token is merged into the initial state
Rehydrate(t) ==
  /\ store = InitialStore
  /\ \A o \in OpIds : ops[o].pc = "none"
  /\ store' = [store EXCEPT !.token = t]
  /\ UNCHANGED <<ops, logoutCalls>>
  /\ UNCHANGED <<serverVars, frameVars>>

\* setToken (api.ts 108-110)
SetToken(t) ==
  /\ store' = [store EXCEPT !.token = t, !.isAuthenticated = TRUE]
  /\ UNCHANGED <<ops, logoutCalls>>
  /\ UNCHANGED <<serverVars, frameVars>>

\* checkAuth up to its await (112-120)
CheckAuth ==
  /\ HasFreeOp(ops)
  /\ IF store.token = NoToken
     THEN /\ store' = [store EXCEPT !.isLoading = FALSE, !.isAuthenticated = FALSE]
          /\ ops' = [ops EXCEPT ![FreshOp(ops)] = Op("checkAuth", "done", "noToken")]
     ELSE /\ ops' = [ops EXCEPT ![FreshOp(ops)] = Op("checkAuth", "awaiting", "none")]
          /\ UNCHANGED store
  /\ UNCHANGED logoutCalls
  /\ UNCHANGED <<serverVars, frameVars>>

\* GET /api/auth/me answered with a user (121-122)
MeOk(o) ==
  /\ ops[o] = Op("checkAuth", "awaiting", "none")
  /\ store' = [store EXCEPT !.user = "user", !.isAuthenticated = TRUE,
                            !.isLoading = FALSE]
  /\ ops' = [ops EXCEPT ![o] = Op("checkAuth", "done", "ok")]
  /\ UNCHANGED logoutCalls
  /\ UNCHANGED <<serverVars, frameVars>>

\* GET /api/auth/me rejected (123-125)
MeFail(o, status) ==
  /\ ops[o] = Op("checkAuth", "awaiting", "none")
  /\ status = 401 => HasFreeOp(ops)
  /\ LET w == requestFailed(WebState, status)
     IN SetWebState([w EXCEPT
          !.store = [clearAuth(@) EXCEPT !.isLoading = FALSE],
          !.ops[o] = Op("checkAuth", "done", "rejected")])
  /\ UNCHANGED <<serverVars, frameVars>>

\* logout called by the application
Logout ==
  /\ HasFreeOp(ops)
  /\ SetWebState(logout(WebState))
  /\ UNCHANGED <<serverVars, frameVars>>

\* POST /api/auth/logout answered (131, 136)
LogoutOk(o) ==
  /\ ops[o] = Op("logout", "awaiting", "none")
  /\ store' = clearAuth(store)
  /\ ops' = [ops EXCEPT ![o] = Op("logout", "done", "ok")]
  /\ UNCHANGED logoutCalls
  /\ UNCHANGED <<serverVars, frameVars>>

\* a logout that keeps the store as it is when its request fails
LogoutFailKeeps(o, status) ==
  /\ ops[o] = Op("logout", "awaiting", "none")
  /\ status = 401 => HasFreeOp(ops)
  /\ LET w == requestFailed(WebState, status)
     IN SetWebState([w EXCEPT !.ops[o] = Op("logout", "done", "rejected")])
  /\ UNCHANGED <<serverVars, frameVars>>

\* POST /api/auth/logout rejected (132-136): the error is ignored
LogoutFail(o, status) ==
  /\ ops[o] = Op("logout", "awaiting", "none")
  /\ status = 401 => HasFreeOp(ops)
  /\ LET w == requestFailed(WebState, status)
     IN SetWebState([w EXCEPT
          !.store = clearAuth(@),
          !.ops[o] = Op("logout", "done", "rejected")])
  /\ UNCHANGED <<serverVars, frameVars>>

NextWeb ==
  \/ \E t \in Tokens : Rehydrate(t)
  \/ \E t \in Tokens : SetToken(t)
  \/ CheckAuth
  \/ \E o \in OpIds : MeOk(o)
  \/ \E o \in OpIds, status \in FailStatuses : MeFail(o, status)
  \/ Logout
  \/ \E o \in OpIds : LogoutOk(o)
  \/ \E o \in OpIds, status \in FailStatuses : LogoutFail(o, status)

SpecWeb == Init /\ [][NextWeb]_vars


\* --------------------------------------------- assistant stdout: framing
\* the assistant process starts writing a stream of characters to stdout
StreamStart(chars) ==
  /\ streamState = "none"
  /\ streamState' = "open"
  /\ stdoutStream' = encode(chars)
  /\ UNCHANGED <<consumed, jsonBuffer, records>>
  /\ UNCHANGED <<serverVars, webVars>>

\* the pipe delivers the next n bytes as one chunk (332-361)
StdoutData(n) ==
  /\ streamState = "open"
  /\ consumed + n <= Len(stdoutStream)
  /\ LET f == onStdoutData(Framing(jsonBuffer, records),
                           SubSeq(stdoutStream, consumed + 1, consumed + n))
     IN /\ jsonBuffer' = f.buffer
        /\ records' = f.parsed
  /\ consumed' = consumed + n
  /\ UNCHANGED <<stdoutStream, streamState>>
  /\ UNCHANGED <<serverVars, webVars>>

\* the process has closed, after all of its output was delivered (381-389)
StdoutClose ==
  /\ streamState = "open"
  /\ consumed = Len(stdoutStream)
  /\ LET f == onCloseFlush(Framing(jsonBuffer, records))
     IN /\ jsonBuffer' = f.buffer
        /\ records' = f.parsed
  /\ streamState' = "closed"
  /\ UNCHANGED <<stdoutStream, consumed>>
  /\ UNCHANGED <<serverVars, webVars>>

NextFraming ==
  \/ \E chars \in CharStreams : StreamStart(chars)
  \/ \E n \in 1..(2 * MaxChars) : StdoutData(n)
  \/ StdoutClose

SpecFraming == Init /\ [][NextFraming]_vars


\* ------------------------------------- inbound frames and stdout lines
\* how often the server has written this frame to the sockets of a bridge
Written(socks, frame) ==
  Cardinality(UNION {{<<k, i>> : i \in {j \in 1..Len(socks[k].frames) :
                                            socks[k].frames[j] = frame}} :
                     k \in DOMAIN socks})

Pong == Frame("pong", 0, 0)
InvalidFormat == Frame("error", 0, 400)     \* "Invalid message format"

\* terminal.ts 115: the "message" listener exists once the connection is
\* attached.  Frames the peer sent before it answered the server's own
\* close (109) are still delivered while readyState is CLOSING.
TermReceives(k) ==
  /\ tsock[k].bound # None
  /\ \/ tsock[k].state = "OPEN"
     \/ tsock[k].state = "CLOSING" /\ tsock[k].closeCode # 0

\* chat.ts 211: the listener exists on accepted connections, which the
\* server never closes itself
ChatReceives(k) == csock[k].state = "OPEN" /\ csock[k].closeCode = 0

\* terminal.ts 120-134 and a type the switch has no case for: input goes
\* to the PTY of this connection and touches last_activity_at, resize goes
\* to the PTY, anything else is dropped; no column the table keeps here is
\* written and nothing is sent
TermFrame(k, kind) ==
  /\ TermReceives(k)
  /\ kind \in {"input", "resize", "unknown"}
  /\ inbound' = Inbound("term", kind)
  /\ UNCHANGED <<logVars, branchVars, frameVars, webVars, processEnv, rows, dirs, issued, termVars, chatVars, reply, reported, repoVars,
                 normVars, loginVars>>

\* terminal.ts 136-138: socket.send without a look at readyState
TermPing(k) ==
  /\ TermReceives(k)
  /\ Written(tsock, Pong) < MaxInbound
  /\ inbound' = Inbound("term", "ping")
  /\ tsock' = [tsock EXCEPT ![k] = send(@, Pong)]
  /\ UNCHANGED <<logVars, branchVars, frameVars, webVars, processEnv, rows, dirs, issued, activePtys, ptys, chatVars, reply, reported, repoVars,
                 normVars, loginVars>>

\* terminal.ts 116-117, 140-142: JSON.parse throws, or the frame is no
\* object; the catch block logs
TermMalformed(k) ==
  /\ TermReceives(k)
  /\ inbound' = Inbound("term", "malformed")
  /\ UNCHANGED <<logVars, branchVars, frameVars, webVars, processEnv, rows, dirs, issued, termVars, chatVars, reply, reported, repoVars,
                 normVars, loginVars>>

\* chat.ts 222-224
ChatPing(k) ==
  /\ ChatReceives(k)
  /\ Written(csock, Pong) + Written(csock, InvalidFormat) < MaxInbound
  /\ inbound' = Inbound("chat", "ping")
  /\ csock' = [csock EXCEPT ![k] = send(@, Pong)]
  /\ UNCHANGED <<logVars, branchVars, frameVars, webVars, processEnv, rows, dirs, issued, termVars, activeProcesses, procs, reply, reported, repoVars,
                 normVars, loginVars>>

\* chat.ts 228-230: a type that is none of user, ping, abort, or a user
\* frame without content
ChatUnknown(k) ==
  /\ ChatReceives(k)
  /\ inbound' = Inbound("chat", "unknown")
  /\ UNCHANGED <<logVars, branchVars, frameVars, webVars, processEnv, rows, dirs, issued, termVars, chatVars, reply, reported, repoVars,
                 normVars, loginVars>>

\* a catch block that gives the connection up
ChatMalformedCloses(k) ==
  /\ ChatReceives(k)
  /\ Written(csock, Pong) + Written(csock, InvalidFormat) < MaxInbound
  /\ inbound' = Inbound("chat", "malformed")
  /\ csock' = [csock EXCEPT ![k] = close(sendMessage(@, InvalidFormat), 1003)]
  /\ UNCHANGED <<logVars, branchVars, frameVars, webVars, processEnv, rows, dirs, issued, termVars, activeProcesses, procs, reply, reported, repoVars,
                 normVars, loginVars>>

\* chat.ts 216, 231-237: JSON.parse throws, or the frame is no object;
\* the catch block logs and answers with an error message
ChatMalformed(k) ==
  /\ ChatReceives(k)
  /\ Written(csock, Pong) + Written(csock, InvalidFormat) < MaxInbound
  /\ inbound' = Inbound("chat", "malformed")
  /\ csock' = [csock EXCEPT ![k] = sendMessage(@, InvalidFormat)]
  /\ UNCHANGED <<logVars, branchVars, frameVars, webVars, processEnv, rows, dirs, issued, termVars, activeProcesses, procs, reply, reported, repoVars,
                 normVars, loginVars>>

\* chat.ts 341-360: a whole stdout line that JSON.parse rejects; the
\* catch block logs and the loop goes on with the next line
ProcStdoutMalformed(q) ==
  /\ ProcAlive(q)
  /\ procs[q].buffer = ""
  /\ inbound' = Inbound("stdout", "malformed")
  /\ UNCHANGED <<logVars, branchVars, frameVars, webVars, processEnv, rows, dirs, issued, termVars, chatVars, reply, reported, repoVars,
                 normVars, loginVars>>

\* no connection of the other bridge has been opened
TermIdle == \A k \in TermSocks : tsock[k].state = "NONE"
ChatIdle == \A k \in ChatSocks : csock[k].state = "NONE"

NextTermInbound ==
  \/ \E s \in SessionIds, u \in Users : TermConnect(s, u)
  \/ \E p \in PtyIds, c \in ExitCodes : PtyExit(p, c)
  \/ \E k \in TermSocks : TermPeerClose(k)
  \/ \E k \in TermSocks : TermSocketClose(k)
  \/ \E k \in TermSocks, kind \in {"input", "resize", "unknown"} :
       TermFrame(k, kind)
  \/ \E k \in TermSocks : TermPing(k)
  \/ \E k \in TermSocks : TermMalformed(k)

NextChatInbound ==
  \/ \E s \in SessionIds, u \in Users : ChatConnect(s, u)
  \/ \E k \in ChatSocks : ChatUser(k)
  \/ \E q \in ProcIds : ProcStdout(q, "assistant")
  \/ \E q \in ProcIds, c \in ExitCodes : ProcClose(q, c)
  \/ \E k \in ChatSocks : ChatPeerClose(k)
  \/ \E k \in ChatSocks : ChatSocketClose(k)
  \/ \E k \in ChatSocks : ChatPing(k)
  \/ \E k \in ChatSocks : ChatUnknown(k)
  \/ \E k \in ChatSocks : ChatMalformed(k)
  \/ \E q \in ProcIds : ProcStdoutMalformed(q)

\* the two bridges share nothing but the session row, which no message
\* handler writes a modelled column of: a behaviour opens terminal
\* connections or chat connections
NextInbound ==
  \/ \E u \in Users : CreateSession(u)
  \/ ChatIdle /\ NextTermInbound
  \/ TermIdle /\ NextChatInbound

\* the message handlers and the stdout line loop, next to what opens and
\* closes the sockets and processes they work on
SpecInbound == Init /\ [][NextInbound]_vars


\* -------------------------------------- repositories.ts: listBranches
\* one line of `git branch -a --format=%(refname:short)|%(HEAD)`: the
\* short ref name, as its path segments, and the HEAD marker
GitLine(name, head) == [name |-> name, head |-> head]

\* the refs of a clone: local branches, of which one may be checked out,
\* remote-tracking branches and the remote's HEAD
GitLines ==
  {GitLine(<<"main">>, h) : h \in {"*", " "}}
    \cup {GitLine(<<"dev">>, " "), GitLine(<<"origin", "main">>, " "),
          GitLine(<<"origin", "dev">>, " "), GitLine(<<"origin", "HEAD">>, " ")}

\* what git may print: every ref once, in the order the sort key in force
\* gives
GitOutputs ==
  {out \in UNION {[1..n -> GitLines] : n \in 0..MaxRefs} :
     \A i, j \in 1..Len(out) : i # j => out[i].name # out[j].name}

Branch(name, isRemote, current) ==
  [name |-> name, isRemote |-> isRemote, current |-> current]

\* 69: name.includes("HEAD")
includesHead(name) == \E i \in 1..Len(name) : name[i] = "HEAD"

\* 71: name.startsWith("origin/")
startsWithOrigin(name) == Len(name) > 1 /\ name[1] = "origin"

\* 63-84: the loop over the lines
RECURSIVE pushBranches(_)
pushBranches(lines) ==
  IF lines = <<>> THEN <<>>
  ELSE LET line == Head(lines)
           rest == pushBranches(Tail(lines))
       IN IF includesHead(line.name) THEN rest
          ELSE IF startsWithOrigin(line.name)
          THEN <<Branch(Tail(line.name), TRUE, FALSE)>> \o rest
          ELSE <<Branch(line.name, FALSE, line.head = "*")>> \o rest

\* 87-95: the first entry of every name is kept
RECURSIVE dedupe(_, _)
dedupe(branches, seen) ==
  IF branches = <<>> THEN <<>>
  ELSE IF Head(branches).name \in seen THEN dedupe(Tail(branches), seen)
  ELSE <<Head(branches)>>
         \o dedupe(Tail(branches), seen \cup {Head(branches).name})

listBranches(stdout) == dedupe(pushBranches(stdout), {})

\* GET /:id/branches (repositories.ts 271) on a clone whose refs git
\* prints as `out`
ListBranches(out) ==
  /\ gitStdout = <<>>
  /\ gitStdout' = out
  /\ branchList' = listBranches(out)
  /\ UNCHANGED <<msgVars, logVars, frameVars, webVars, processEnv, rows, dirs, issued, termVars, chatVars, reply, reported, repoVars,
                 normVars, loginVars>>

NextBranches == \E out \in GitOutputs : ListBranches(out)

SpecBranches == Init /\ [][NextBranches]_vars


\* ------------------------------------- registry entry and row status
\* every operation that writes activePtys or a session row, or that the
\* owner can run while a PTY is registered: terminal connect, exit and
\* kill, input on the terminal socket, chat connect, rename, delete
NextPairing ==
  \/ NextSessions
  \/ \E s \in SessionIds, u \in Users : TermConnect(s, u)
  \/ \E p \in PtyIds, c \in ExitCodes : PtyExit(p, c)
  \/ \E s \in SessionIds, u \in Users : TermKill(s, u)
  \/ \E k \in TermSocks : TermPeerClose(k)
  \/ \E k \in TermSocks : TermFrame(k, "input")
  \/ \E s \in SessionIds, u \in Users : ChatConnect(s, u)
  \/ \E u \in Users, s \in SessionIds : PatchSession(u, s)

SpecPairing == Init /\ [][NextPairing]_vars


Next == \/ NextSessions \/ NextTerm \/ NextChat
        \/ NextAccess \/ NextQuota \/ NextStop \/ NextRepo
        \/ NextNormalize \/ NextLogin \/ NextRestart \/ NextEnv
        \/ NextWeb \/ NextFraming \/ NextInbound
        \/ NextBranches \/ NextPairing \/ NextAddRepo \/ NextWsSessions

\* the whole server
Spec == Init /\ [][Next]_vars

\* sessions and chat connections only
SpecChat == Init /\ [][NextSessions \/ NextChat]_vars

\* sessions and terminal connections only
SpecTerm == Init /\ [][NextSessions \/ NextTerm]_vars

TypeOK ==
  /\ issued \in 0..Cardinality(RowIds)
  /\ dirs \subseteq RowIds
  /\ \A s \in SessionIds : activePtys[s] \in PtyIds \cup {None}
  /\ \A p \in PtyIds :
       ptys[p].state \in {"none", "running", "killed", "exited", "lost"}
  /\ \A k \in TermSocks : tsock[k].state \in {"NONE", "OPEN", "CLOSING", "CLOSED"}

\* ================================================================ claims

\* PTY processes of session s that were never signalled and have not exited
RunningPtys(s) == {p \in PtyIds : ptys[p].sid = s /\ ptys[p].state = "running"}

\* assistant processes of session s that were never signalled and not closed
RunningProcs(s) == {q \in ProcIds : procs[q].sid = s /\ procs[q].state = "running"}

\* frames a step appends to a chat socket
NewFrames(k) ==
  {csock'[k].frames[i] : i \in (Len(csock[k].frames) + 1)..Len(csock'[k].frames)}

\* C1: in every reachable state each session id has at most one live PTY
\* process (counted here in the narrowest sense: spawned, never signalled,
\* not exited).
C1_AtMostOneLivePty ==
  \A s \in SessionIds : Cardinality(RunningPtys(s)) <= 1

\* C2: at most one live assistant process exists per session id at any time;
\* a user message while an invocation is in flight spawns no second one.
C2_OneInvocationPerSession ==
  \A s \in SessionIds : Cardinality(RunningProcs(s)) <= 1

\* C3: a terminal connection for a session whose PTY is running and
\* registered spawns nothing and binds to that PTY, and every chunk the PTY
\* emits reaches each open socket attached to it.
C3_Step ==
  /\ \A k \in TermSocks :
       ( /\ tsock[k].state = "NONE"
         /\ tsock'[k].state = "OPEN"
         /\ activePtys[tsock'[k].sid] # None
         /\ PtyAlive(activePtys[tsock'[k].sid]) )
       => /\ ptys' = ptys
          /\ tsock'[k].bound = activePtys[tsock'[k].sid]
  /\ \A p \in PtyIds :
       ptys'[p].emitted = ptys[p].emitted + 1
       => \A k \in TermSocks :
            (tsock[k].bound = p /\ tsock[k].state = "OPEN")
            => tsock'[k].frames =
                 Append(tsock[k].frames, Frame("output", p, ptys'[p].emitted))
C3_ReattachSameProcess == [][C3_Step]_vars

\* C3 witness: a second socket attached to the PTY the first one spawned and
\* received a chunk from it
C3_Witness ==
  \E k1, k2 \in TermSocks :
    /\ k1 < k2
    /\ tsock[k1].bound # None
    /\ tsock[k2].bound = tsock[k1].bound
    /\ \E i \in 1..Len(tsock[k2].frames) :
         tsock[k2].frames[i] = Frame("output", tsock[k2].bound, 1)

\* C4: when DELETE /sessions/:id succeeds, no live PTY or assistant process
\* of that session exists and its registry entries are gone.
C4_Step ==
  \A s \in SessionIds :
    (rows[s].exists /\ ~rows'[s].exists)
    => /\ activePtys'[s] = None
       /\ activeProcesses'[s] = None
       /\ \A p \in PtyIds : ptys'[p].sid = s => ptys'[p].state # "running"
       /\ \A q \in ProcIds : procs'[q].sid = s => procs'[q].state # "running"
C4_DeleteKillsProcess == [][C4_Step]_vars

\* C5: a session whose persisted status is running has a live entry in a
\* process registry.
C5_RunningImpliesRegistered ==
  \A s \in SessionIds :
    (rows[s].exists /\ rows[s].status = "running")
    => \/ activePtys[s] # None /\ PtyAlive(activePtys[s])
       \/ activeProcesses[s] # None /\ ProcAlive(activeProcesses[s])

\* C6: once abort has signalled an invocation, no further output event
\* (assistant, tool_use, tool_result, error) of that process is delivered.
C6_Step ==
  \A q \in ProcIds :
    procs[q].state = "signalled"
    => \A k \in ChatSocks :
         \A f \in NewFrames(k) :
           ~(f.src = q /\ f.type \in OutKinds \cup {"tool_result", "error"})
C6_NoOutputAfterAbort == [][C6_Step]_vars

\* C7: the close of an aborted invocation leaves a newer invocation of the
\* session registered, and sends no idle status while the newer one runs.
C7_Step ==
  \A q1, q2 \in ProcIds :
    ( /\ q1 # q2
      /\ procs[q1].state = "signalled"
      /\ procs'[q1].state = "closed"
      /\ procs[q2].state = "running"
      /\ procs[q2].sid = procs[q1].sid
      /\ activeProcesses[procs[q2].sid] = q2 )
    => /\ activeProcesses'[procs[q2].sid] = q2
       /\ \A k \in ChatSocks :
            \A f \in NewFrames(k) : ~(f.type = "status" /\ f.status = "idle")
C7_FreshInvocationUnaffected == [][C7_Step]_vars

\* C8: when a PTY exits its registry entry is removed, the status is
\* persisted as stopped, and every attached open socket gets one exit frame
\* with the exit code, then close(1000); the exit frame is a socket's last.
C8_Step ==
  \A p \in PtyIds :
    (PtyAlive(p) /\ ptys'[p].state = "exited")
    => /\ activePtys'[ptys[p].sid] = None
       /\ rows[ptys[p].sid].exists => rows'[ptys[p].sid].status = "stopped"
       /\ \A k \in TermSocks :
            (tsock[k].bound = p /\ tsock[k].state = "OPEN")
            => /\ tsock'[k].frames =
                    Append(tsock[k].frames, Frame("exit", p, ptys'[p].exitCode))
               /\ tsock'[k].state = "CLOSING"
               /\ tsock'[k].closeCode = 1000
C8_ExitIsLast ==
  \A k \in TermSocks :
    \A i \in 1..Len(tsock[k].frames) :
      tsock[k].frames[i].type = "exit"
      => /\ i = Len(tsock[k].frames)
         /\ tsock[k].state # "OPEN"
         /\ tsock[k].closeCode = 1000
C8_PtyExit == [][C8_Step]_vars /\ []C8_ExitIsLast

\* C8 witness: a socket whose last frame is the exit frame with code 1, closed
\* with 1000, the session stopped and unregistered
C8_Witness ==
  \E k \in TermSocks :
    /\ tsock[k].bound # None
    /\ Len(tsock[k].frames) > 0
    /\ tsock[k].frames[Len(tsock[k].frames)] = Frame("exit", tsock[k].bound, 1)
    /\ tsock[k].closeCode = 1000
    /\ ptys[tsock[k].bound].state = "exited"
    /\ rows[tsock[k].sid].status = "stopped"
    /\ activePtys[tsock[k].sid] = None

\* C9: a terminal socket closing (the peer leaving, then the close event),
\* and a terminal connect, leave every registered PTY registered and running.
C9_Step ==
  \A k \in TermSocks :
    ( \/ tsock[k].state = "OPEN" /\ tsock'[k].state = "CLOSING"
           /\ tsock'[k].closeCode = 0
      \/ tsock[k].state = "CLOSING" /\ tsock'[k].state = "CLOSED"
      \/ tsock[k].state = "NONE" /\ tsock'[k].state # "NONE" )
    => \A s \in SessionIds :
         activePtys[s] # None
         => /\ activePtys'[s] = activePtys[s]
            /\ ptys'[activePtys[s]] = ptys[activePtys[s]]
C9_CloseKeepsPty == [][C9_Step]_vars

\* C9 witness: the spawning socket is closed, a later socket is attached, and
\* the registry still maps the session to the PTY the first connect spawned
C9_Witness ==
  \E k1, k2 \in TermSocks :
    /\ k1 < k2
    /\ tsock[k1].state = "CLOSED"
    /\ tsock[k1].closeCode = 0
    /\ tsock[k1].bound # None
    /\ tsock[k2].bound = tsock[k1].bound
    /\ activePtys[tsock[k1].sid] = tsock[k1].bound
    /\ ptys[tsock[k1].bound].state = "running"

\* C10: after the close handler of a chat socket has run, no assistant
\* process of its session is live and un-signalled.
C10_Step ==
  \A k \in ChatSocks :
    (csock[k].state = "CLOSING" /\ csock[k].closeCode = 0
       /\ csock'[k].state = "CLOSED")
    => \A q \in ProcIds :
         procs'[q].sid = csock[k].sid => procs'[q].state # "running"
C10_CloseAbortsInvocation == [][C10_Step]_vars

\* the caller is authenticated as the owner of session s
IsOwner(u, s) == u # NoUser /\ rows[s].exists /\ rows[s].user_id = u

\* a connection that was accepted in this step by a caller who is not the owner
C11_Refused(old, new) ==
  old.state = "NONE" /\ new.state # "NONE" /\ ~IsOwner(new.user, new.sid)

C11_Step ==
  /\ \A k \in TermSocks :
       C11_Refused(tsock[k], tsock'[k]) =>
         /\ tsock'[k].state = "CLOSING"
         /\ tsock'[k].closeCode = IF tsock'[k].user = NoUser THEN 4001 ELSE 4004
         /\ tsock'[k].bound = None
         /\ UNCHANGED <<rows, dirs, activePtys, ptys, activeProcesses, procs>>
  /\ \A k \in ChatSocks :
       C11_Refused(csock[k], csock'[k]) =>
         /\ csock'[k].state = "CLOSING"
         /\ csock'[k].closeCode = IF csock'[k].user = NoUser THEN 4001 ELSE 4004
         /\ UNCHANGED <<rows, dirs, activePtys, ptys, activeProcesses, procs>>
  /\ (reply' # reply /\ reply'.op \in SessionOps
        /\ ~IsOwner(reply'.user, reply'.sid)) =>
         /\ reply'.result =
              IF reply'.user = NoUser THEN "unauthorized" ELSE "not_found"
         /\ UNCHANGED <<rows, dirs, activePtys, ptys, tsock,
                        activeProcesses, procs, csock>>

\* C11: an operation addressed by a session id has no effect for a caller who
\* is not authenticated as the session's owner.  A terminal or chat WebSocket
\* opened without a valid token is closed with 4001, one for an unknown or
\* foreign session with 4004, and the step spawns no process and changes
\* neither registry nor any session row; kill, status, get, patch and delete
\* by anyone but the owner are answered with a rejection and change nothing.
C11_OwnerOnly == [][C11_Step]_vars

\* a foreign user was refused on an existing session over both transports
\* and over HTTP
C11_Witness ==
  /\ \E k \in TermSocks : /\ tsock[k].closeCode = 4004
                           /\ rows[tsock[k].sid].exists
                           /\ rows[tsock[k].sid].user_id # tsock[k].user
  /\ \E k \in ChatSocks : csock[k].closeCode = 4001
  /\ reply.op = "kill" /\ reply.result = "not_found"
  /\ rows[reply.sid].exists /\ rows[reply.sid].user_id # reply.user

C12_Step ==
  (reply' # reply /\ reply'.op = "create"
     /\ Cardinality({s \in RowIds : rows[s].exists
                        /\ rows[s].user_id = reply'.user}) >= maxSessionsPerUser)
  => /\ reply'.result = "quota"
     /\ UNCHANGED <<rows, dirs>>

\* C12: no user ever has more than maxSessionsPerUser session records (the
\* create handler runs its limit test and its insert without yielding, so
\* overlapping requests are serialized), and a creation asked for by a user
\* who already has the maximum is answered with the quota error and adds
\* neither a session record nor a workspace directory.
C12_QuotaHeld ==
  /\ [](\A u \in Users :
         Cardinality({s \in RowIds : rows[s].exists /\ rows[s].user_id = u})
           <= maxSessionsPerUser)
  /\ [][C12_Step]_vars

\* a user at the maximum has just been refused another session
C12_Witness ==
  /\ reply.op = "create" /\ reply.result = "quota"
  /\ Cardinality({s \in RowIds : rows[s].exists /\ rows[s].user_id = reply.user})
       = maxSessionsPerUser
  /\ Cardinality(dirs) = maxSessionsPerUser

\* C13: in every reachable state a (repository, branch) pair has at most one
\* Workspace record, also when creation requests for the pair overlap.
C13_OneWorkspacePerBranch ==
  \A r \in RepoIds, b \in Branches :
    Cardinality({w \in WsIds : workspaces[w].exists
                                /\ workspaces[w].repository_id = r
                                /\ workspaces[w].branch = b}) <= 1

\* a session of workspace w has status running
C14_Running(w) ==
  \E s \in RowIds : rows[s].exists /\ rows[s].workspace_id = w
                       /\ rows[s].status = "running"

C14_Step ==
  \A w \in WsIds :
    (\/ workspaces[w].exists /\ ~workspaces'[w].exists
     \/ w \in wsDirs /\ w \notin wsDirs')
    => ~C14_Running(w)

\* C14: a step that deletes a workspace's worktree directory or removes its
\* record (alone or with its repository) is never taken while a session of
\* that workspace has status running, also when the session started running
\* while the deletion handler was waiting for git.
C14_NoRemovalWhileRunning == [][C14_Step]_vars

\* C15: when the add-repository handler has answered with an error after
\* the clone had succeeded (reading the default branch failed, or storing
\* the record did), the clone directory is gone and the repository has no
\* record.
C15_CloneRolledBack ==
  \A c \in CallIds :
    (calls[c].op = "add_repo" /\ calls[c].pc = "done"
       /\ calls[c].result = 500 /\ calls[c].last = "branch")
    => /\ calls[c].repo \notin repoDirs
       /\ ~repos[calls[c].repo].exists

\* an add-repository call failed after its clone had succeeded
C15_Witness ==
  \E c \in CallIds : /\ calls[c].op = "add_repo" /\ calls[c].pc = "done"
                      /\ calls[c].result = 500 /\ calls[c].last = "branch"

\* C16: when the create-workspace handler has answered with an error (git
\* worktree add failed, or storing the record failed after the worktree was
\* added), the worktree is no longer registered with git, its directory is
\* gone and the workspace has no record.
C16_WorktreeRolledBack ==
  \A c \in CallIds :
    (calls[c].op = "create_ws" /\ calls[c].pc = "done" /\ calls[c].result = 500)
    => /\ worktrees[calls[c].ws] = NoWorktree
       /\ calls[c].ws \notin wsDirs
       /\ ~workspaces[calls[c].ws].exists

\* a create-workspace call failed after its worktree had been added, and
\* another failed in git worktree add
C16_Witness ==
  /\ \E c \in CallIds : /\ calls[c].op = "create_ws" /\ calls[c].pc = "done"
                         /\ calls[c].result = 500 /\ calls[c].last = "added"
  /\ \E c \in CallIds : /\ calls[c].op = "create_ws" /\ calls[c].pc = "done"
                         /\ calls[c].result = 500 /\ calls[c].last = "add_failed"

\* frames a step appends to a terminal socket
NewTermFrames(k) ==
  {tsock'[k].frames[i] : i \in (Len(tsock[k].frames) + 1)..Len(tsock'[k].frames)}

\* the positions of the output frames in a socket's frames
OutputAt(k) ==
  {i \in 1..Len(tsock[k].frames) : tsock[k].frames[i].type = "output"}

C17_Step ==
  \A k \in TermSocks :
    \A f \in NewTermFrames(k) :
      f.type = "output"
      => /\ tsock[k].state = "OPEN"
         /\ tsock[k].bound = f.src
         /\ ptys[f.src].emitted = f.n - 1
         /\ ptys'[f.src].emitted = f.n

\* C17: an output frame is written to a socket only in the step in which the
\* PTY emits that chunk, and only if the socket was attached and open before
\* the step.  Output emitted while no open socket is attached therefore
\* reaches nobody, and a socket never gets a chunk emitted before its attach.
C17_NoReplay == [][C17_Step]_vars

\* a socket attached after the first chunk has the second chunk only
C17_Witness ==
  \E k \in TermSocks :
    /\ tsock[k].bound # None
    /\ ptys[tsock[k].bound].emitted = 2
    /\ {tsock[k].frames[i].n : i \in OutputAt(k)} = {2}

C19_Step ==
  \A s \in SessionIds :
    /\ activePtys[s] # None => activePtys'[s] \in {activePtys[s], None}
    /\ activeProcesses[s] # None
         => activeProcesses'[s] \in {activeProcesses[s], None}

\* C19: a handle registered for a session id stays registered until it is
\* unregistered: no step replaces the entry of the PTY registry or of the
\* assistant-process registry by another handle (a second registration is
\* refused, the first handle is kept).
C19_NeverOverwritten == [][C19_Step]_vars

C20_Step ==
  /\ (reply' # reply /\ reply'.op = "kill" /\ reply'.result = "ok") =>
       /\ activePtys'[reply'.sid] = None
       /\ activePtys[reply'.sid] = None
            => UNCHANGED <<activePtys, ptys, rows, tsock>>
  /\ \A q \in ProcIds :
       (procs[q].state = "running" /\ procs'[q].state = "signalled")
       => activeProcesses'[procs[q].sid] = None

\* C20: kill and abort are idempotent.  A kill by the owner of a session
\* with no registered PTY succeeds and changes neither the registry, nor a
\* process, nor the persisted status; an abort for a session with no
\* registered assistant process changes neither the registry nor a process.
\* Every kill and every abort leaves the session's registry entry empty, so
\* repeating either finds nothing registered and leaves the state as the
\* first one left it.
C20_Idempotent ==
  /\ [](\A s \in SessionIds :
         activeProcesses[s] = None
         => abortKill(procs, s) = procs /\ abortDelete(s) = activeProcesses)
  /\ [][C20_Step]_vars

\* the owner's kill succeeded though no PTY was ever spawned, the row still
\* says running, and a process that was aborted has no registry entry left
C20_Witness ==
  /\ reply.op = "kill" /\ reply.result = "ok"
  /\ \A p \in PtyIds : ptys[p].state = "none"
  /\ rows[reply.sid].status = "running"
  /\ \E q \in ProcIds : /\ procs[q].state = "signalled"
                         /\ activeProcesses[procs[q].sid] = None

\* a content array holding exactly one block, a text block
OneTextBlock(c) ==
  c.kind = "array" /\ Len(c.blocks) = 1 /\ c.blocks[1].type = "text"

\* C21: for an open socket, a `message` record whose content is an array
\* holding one text block, a `content_block_start` record with a text block,
\* a bare `tool_use` record and a `tool_result` record each produce exactly
\* one outbound event, of kind assistant, assistant, tool_use and
\* tool_result (carrying the record's tool-call id); a final `result`
\* record produces none.
C21_Normalized ==
  (event # NoEvent /\ evSock = "OPEN") =>
    /\ (event.type = "message" /\ OneTextBlock(event.message)) =>
         outbound = <<ChatMessage("assistant", event.message.blocks[1].text, "")>>
    /\ (event.type = "message" /\ event.message = NoContent
          /\ OneTextBlock(event.content)) =>
         outbound = <<ChatMessage("assistant", event.content.blocks[1].text, "")>>
    /\ (event.type = "content_block_start" /\ event.content_block.type = "text") =>
         (Len(outbound) = 1 /\ outbound[1].type = "assistant")
    /\ event.type = "tool_use" =>
         (Len(outbound) = 1 /\ outbound[1].type = "tool_use")
    /\ event.type = "tool_result" =>
         /\ Len(outbound) = 1 /\ outbound[1].type = "tool_result"
         /\ event.tool_use_id # "" => outbound[1].toolId = event.tool_use_id
    /\ event.type = "result" => outbound = <<>>

\* a tool_result record naming its tool call was normalized for an open
\* socket
C21_Witness ==
  /\ evSock = "OPEN"
  /\ event.type = "tool_result" /\ event.tool_use_id = "t1"
  /\ outbound = <<ChatMessage("tool_result", "", "t1")>>

\* positions of the `idle` status of process q among the frames of socket k
IdleAt(k, q) ==
  {i \in 1..Len(csock[k].frames) : csock[k].frames[i] = StatusFrame("idle", q)}

C22_Step ==
  \A q \in ProcIds :
    (procs[q].state # "closed" /\ procs'[q].state = "closed") =>
      LET k   == procs[q].sock
          old == csock[k].frames
          new == csock'[k].frames
      IN IF csock[k].state = "OPEN"
         THEN /\ Len(new) > Len(old)
              /\ new[Len(new)] = StatusFrame("idle", q)
              /\ \A i \in (Len(old) + 1)..(Len(new) - 1) :
                   new[i] # StatusFrame("idle", q)
              /\ procs[q].buffer # "" =>
                   /\ Len(new) = Len(old) + 2
                   /\ new[Len(old) + 1] = Frame(procs[q].buffer, q, 0)
         ELSE new = old

C22_IdleOnceAndLast ==
  \A q \in ProcIds :
    /\ \A k \in ChatSocks :
         /\ Cardinality(IdleAt(k, q)) <= 1
         /\ IdleAt(k, q) # {} => (k = procs[q].sock /\ procs[q].state = "closed")
         /\ \A i \in IdleAt(k, q) :
              \A j \in (i + 1)..Len(csock[k].frames) : csock[k].frames[j].src # q

\* C22: when an assistant process closes, with any exit code and whether or
\* not it was signalled, its close handler sends exactly one `idle` status
\* to the invoking socket if that socket is still open (after the record
\* parsed from a trailing unterminated line, if there is one) and nothing
\* otherwise; no process has more than one `idle`, and no event stemming
\* from a process follows its `idle`.
C22_IdleAfterClose == [](C22_IdleOnceAndLast) /\ [][C22_Step]_vars

\* a process closed with a non-zero code while its socket was open: the
\* record parsed from its output and then `idle` are the last frames of
\* that socket
C22_Witness ==
  \E q \in ProcIds :
    LET fs == csock[procs[q].sock].frames
    IN /\ procs[q].state = "closed" /\ procs[q].exitCode = 1
       /\ Len(fs) >= 2
       /\ fs[Len(fs)] = StatusFrame("idle", q)
       /\ fs[Len(fs) - 1] = Frame("assistant", q, 0)

C23_Settled ==
  \A a \in LoginIds :
    /\ (urlMatch(logins[a].output) \/ logins[a].state \in {"exited", "failed"}
          \/ logins[a].timer = "fired") => logins[a].outcome # "pending"
    /\ logins[a].outcome = "loginUrl" => urlMatch(logins[a].output)

C23_Step ==
  \A a \in LoginIds :
    LET l == logins[a]
        n == logins'[a]
    IN /\ l.outcome # "pending" => n.outcome = l.outcome
       /\ (l.outcome = "pending" /\ n.outcome # "pending") =>
            \/ /\ ~urlMatch(l.output) /\ urlMatch(n.output)
               /\ n.outcome = "loginUrl"
               /\ n.state = l.state /\ n.timer = l.timer
            \/ /\ l.state \in {"running", "killed"} /\ n.state = "exited"
               /\ n.outcome \in {"success", "failed"}
            \/ /\ l.timer = "armed" /\ n.timer = "fired"
               /\ n.outcome = "timed out"
            \/ /\ l.state = "none" /\ n.state = "failed"
               /\ n.outcome = "rejected"

\* C23: the promise of a login request is settled once, by the first of
\* three happenings: the accumulated output comes to hold an authentication
\* URL (settled with the URL while the PTY is still alive), the PTY exits
\* (settled from the exit branch), the timer fires (settled as timed out);
\* and every login request is settled eventually.
C23_ResolvesOnce ==
  /\ [](C23_Settled)
  /\ [][C23_Step]_vars
  /\ \A a \in LoginIds :
       (logins[a].state # "none") ~> (logins[a].outcome # "pending")

\* a request was answered with the URL while its PTY runs and its timer is
\* still armed
C23_Witness ==
  \E a \in LoginIds :
    /\ logins[a].outcome = "loginUrl"
    /\ logins[a].state = "running" /\ logins[a].timer = "armed"

\* C24: once the 30-second timer of a login attempt has fired, the login
\* PTY of that attempt has been killed or has exited, whether or not a URL
\* was found before.
C24_NoLoginOutlivesTimer ==
  \A a \in LoginIds :
    logins[a].timer = "fired" => logins[a].state \in {"killed", "exited"}

\* login PTYs of user u that were never signalled and have not exited
RunningLogins(u) ==
  {a \in LoginIds : logins[a].user = u /\ logins[a].state = "running"}

\* C25: after any sequence of login requests and login-PTY exit callbacks
\* at most one login PTY per user is live, and it is the one recorded in
\* pendingLogins.
C25_OneLoginPerUser ==
  \A u \in Users :
    /\ Cardinality(RunningLogins(u)) <= 1
    /\ \A a \in RunningLogins(u) : pendingLogins[u] = a

C26_Step ==
  /\ \A k \in TermSocks :
       (tsock[k].state = "NONE" /\ tsock'[k].closeCode = 4500) =>
         LET s == tsock'[k].sid
         IN /\ \E i \in 1..Len(tsock'[k].frames) :
                 tsock'[k].frames[i].type = "error"
            /\ rows'[s].status = "error"
            /\ activePtys'[s] = None
            /\ rows'[s].exists
  /\ \A q \in ProcIds :
       (procs[q].state = "running" /\ procs'[q].state = "failed") =>
         LET s == procs[q].sid
             k == procs[q].sock
         IN /\ csock[k].state = "OPEN" =>
                 \E f \in NewFrames(k) : f.type = "error" /\ f.src = q
            /\ rows[s].exists => rows'[s].status = "error"
            /\ activeProcesses'[s] # q

\* C26: when a spawn fails (pty.spawn throws on a terminal connect, the
\* assistant child emits a spawn error) the client receives an `error`
\* event, the session's status becomes `error`, the registry holds no entry
\* for the failed spawn, and the session row is still there.
C26_SpawnFailure == [][C26_Step]_vars

\* session s has a row with status `running` and no registered process
C27_Stale(s) ==
  /\ rows[s].exists /\ rows[s].status = "running"
  /\ activePtys[s] = None /\ activeProcesses[s] = None

\* the step answers a status, get or list request that covers session s
C27_Answered(s) ==
  /\ reply' # reply
  /\ reply'.result = "ok"
  /\ \/ reply'.op \in {"status", "get"} /\ reply'.sid = s
     \/ reply'.op = "list" /\ reply'.user = rows[s].user_id

\* the step accepts a terminal connection to session s
C27_Connected(s) ==
  \E k \in TermSocks :
    tsock[k].state = "NONE" /\ tsock'[k].state = "OPEN" /\ tsock'[k].sid = s

C27_Step ==
  \A s \in SessionIds :
    C27_Stale(s) =>
      /\ C27_Answered(s) =>
           /\ rows'[s].status = "stopped"
           /\ <<s, "running">> \notin reported'
      /\ C27_Connected(s) =>
           (rows'[s].status = "stopped" \/ activePtys'[s] # None)

\* C27: a session row left with status `running` and no registry entry (as
\* after a restart) is set to `stopped` by the next status query, session
\* get or list that covers it, which does not report it as `running`; a
\* connect leaves it `running` only together with a registered process.
C27_ReconciledOnAccess == [][C27_Step]_vars

\* the spawns made so far: login PTYs, assistant invocations, terminal PTYs
LoginSpawns ==
  {[kind |-> "login", user |-> logins[a].user, env |-> logins[a].env] :
     a \in {b \in LoginIds : logins[b].state \notin {"none", "failed"}}}
AssistantSpawns ==
  {[kind |-> "assistant", user |-> csock[procs[q].sock].user, env |-> procs[q].env] :
     q \in {r \in ProcIds : procs[r].state # "none"}}
TerminalSpawns ==
  {[kind |-> "terminal", user |-> rows[ptys[p].sid].user_id, env |-> ptys[p].env] :
     p \in {r \in PtyIds : ptys[r].state # "none"}}

C29_ClearedNext ==
  /\ store'.token = NoToken /\ store'.user = NoWebUser
  /\ ~store'.isAuthenticated

C29_Step ==
  /\ \A o \in OpIds :
       /\ (ops[o] = Op("checkAuth", "awaiting", "none")
             /\ ops'[o] = Op("checkAuth", "done", "rejected")) =>
            (C29_ClearedNext /\ ~store'.isLoading)
       /\ (ops[o].pc # "done" /\ ops'[o].kind = "logout" /\ ops'[o].pc = "done") =>
            C29_ClearedNext
  /\ logoutCalls' # logoutCalls => store.token # NoToken
  /\ (store.token = NoToken
        /\ \E o \in OpIds : ops[o].pc = "none" /\ ops'[o].kind = "logout") =>
       logoutCalls' = logoutCalls

\* C29: when checkAuth completes after its /api/auth/me call was rejected
\* the store holds token = null, user = null, isAuthenticated = false and
\* isLoading = false; when logout completes, whether its /api/auth/logout
\* call succeeded or failed, the store holds token = null, user = null and
\* isAuthenticated = false; and logout sends no request when the store
\* holds no token.
C29_FailureClearsAuth == [][C29_Step]_vars

\* a checkAuth whose call was rejected and a logout whose call failed have
\* both completed, and the store is cleared
C29_Witness ==
  /\ \E o \in OpIds : ops[o] = Op("checkAuth", "done", "rejected")
  /\ \E o \in OpIds : ops[o] = Op("logout", "done", "rejected")
  /\ store.token = NoToken /\ store.user = NoWebUser /\ ~store.isAuthenticated
  /\ ~store.isLoading

\* the records of a stream that arrives as one chunk
C30_Unsplit(bytes) ==
  onCloseFlush(onStdoutData(Framing(<<>>, <<>>), bytes)).parsed

\* newlines among the bytes delivered so far
C30_Newlines ==
  Cardinality({i \in 1..consumed : stdoutStream[i] = "0x0A"})

\* C30: however the bytes of a stdout stream are cut into chunks, the
\* records handed to normalization are those of the uncut stream; while
\* the process runs only newline-terminated lines are parsed, and the
\* unterminated last line is parsed once, at close.
C30_ChunkIndependent ==
  /\ streamState = "open" =>
       /\ Len(records) <= C30_Newlines
       /\ \E m \in 0..Len(C30_Unsplit(stdoutStream)) :
            records = SubSeq(C30_Unsplit(stdoutStream), 1, m)
  /\ streamState = "closed" => records = C30_Unsplit(stdoutStream)

\* ---------------------------------------------------------------- C31
\* what a skipped unit may leave behind: nothing but, on a chat socket
\* that was open, the invalid-format answer at the end of its frames
C31_Kept ==
  /\ UNCHANGED <<rows, dirs, issued, activePtys, ptys, tsock,
                 activeProcesses, procs>>
  /\ \A k \in ChatSocks :
       \/ csock'[k] = csock[k]
       \/ /\ csock[k].state = "OPEN"
          /\ csock'[k] = [csock[k] EXCEPT !.frames = Append(@, InvalidFormat)]

C31_Step ==
  (\/ \E k \in TermSocks : TermMalformed(k)
   \/ \E k \in ChatSocks : ChatMalformed(k)
   \/ \E q \in ProcIds : ProcStdoutMalformed(q)) => C31_Kept

\* C31: an unparseable frame on a terminal or chat socket, or an
\* unparseable line of assistant output, is skipped: the step that handles
\* it leaves every socket in the state it was in, every PTY and assistant
\* process as it was (none killed, none spawned), both registries and the
\* session rows unchanged, so whatever is handled next is handled from the
\* state the malformed unit found; the one trace is the invalid-format
\* answer written to the chat socket
C31_MalformedSkipped == [][C31_Step]_vars

\* a chat socket got a malformed frame and then a user message, which
\* spawned a process; that process wrote an unparseable line and is still
\* running and registered, and the socket is still open
C31_Witness ==
  \E k \in ChatSocks, q \in ProcIds :
    /\ csock[k].state = "OPEN"
    /\ \E i, j \in 1..Len(csock[k].frames) :
         /\ i < j
         /\ csock[k].frames[i] = InvalidFormat
         /\ csock[k].frames[j] = StatusFrame("thinking", q)
    /\ activeProcesses[csock[k].sid] = q
    /\ procs[q].state = "running"
    /\ inbound = Inbound("stdout", "malformed")

\* ---------------------------------------------------------------- C32
\* a frame is written to a socket only in a step that found it OPEN (or
\* that accepts it)
C32_Step ==
  /\ \A k \in TermSocks :
       Len(tsock'[k].frames) > Len(tsock[k].frames)
         => tsock[k].state \in {"NONE", "OPEN"}
  /\ \A k \in ChatSocks :
       Len(csock'[k].frames) > Len(csock[k].frames)
         => csock[k].state \in {"NONE", "OPEN"}

\* C32: the server calls send on a terminal or chat socket only while its
\* readyState is OPEN, whatever the frame is (output, exit, pong, error,
\* status)
C32_SendOnlyWhileOpen == [][C32_Step]_vars

\* ---------------------------------------------------------------- C33
\* the sockets chunk n of PTY p was written to
C33_Receivers(p, n) ==
  {k \in TermSocks : \E i \in 1..Len(tsock[k].frames) :
                       tsock[k].frames[i] = Frame("output", p, n)}

\* C33: a PTY delivers its output to one attached socket at a time: no
\* chunk of output is written to two sockets
C33_OneReceiver ==
  \A p \in PtyIds, n \in 1..MaxChunks : Cardinality(C33_Receivers(p, n)) <= 1

\* ---------------------------------------------------------------- C34
C34_Names == {branchList[i].name : i \in 1..Len(branchList)}

\* the lines of a local branch and of its origin/ counterpart
C34_Local(name)  == {i \in 1..Len(gitStdout) : gitStdout[i].name = name}
C34_Remote(name) ==
  {i \in 1..Len(gitStdout) : gitStdout[i].name = <<"origin">> \o name}

\* C34: listBranches returns every name once, leaves HEAD refs out, and
\* for a name git lists both as a local branch and as origin/<name> it
\* returns the local entry (isRemote false, current as git marked it),
\* in whatever order git lists the two
C34_PrefersLocal ==
  /\ Cardinality(C34_Names) = Len(branchList)
  /\ \A i \in 1..Len(branchList) : ~includesHead(branchList[i].name)
  /\ \A i \in 1..Len(branchList) :
       LET b == branchList[i] IN
         C34_Local(b.name) # {} /\ C34_Remote(b.name) # {}
           => \E l \in C34_Local(b.name) :
                b = Branch(b.name, FALSE, gitStdout[l].head = "*")

\* ---------------------------------------------------------------- C35
\* C35: the PTY registry is the truth about running PTYs: a PTY spawned
\* for session S that has not exited is the value of activePtys[S].  The
\* formula asks it of the PTYs nobody has signalled, which leaves out the
\* time between kill() and the exit it causes; the exit callback of an
\* earlier PTY must not take a newer PTY's entry away.
C35_RegistryIsTruth ==
  \A p \in PtyIds :
    ptys[p].state = "running" => activePtys[ptys[p].sid] = p

\* ---------------------------------------------------------------- C36
\* C36: while activePtys holds an entry for a session whose row exists,
\* the row's status is `running`
C36_EntryImpliesRunning ==
  \A s \in SessionIds :
    activePtys[s] # None /\ rows[s].exists => rows[s].status = "running"

\* a PTY is registered for a session that was renamed, has a chat
\* connection and got input, after an earlier PTY of it has exited
C36_Witness ==
  \E s \in SessionIds, p, o \in PtyIds :
    /\ activePtys[s] = p /\ rows[s].exists
    /\ o # p /\ ptys[o].sid = s /\ ptys[o].state = "exited"
    /\ rows[s].project_name = 1
    /\ \E k \in ChatSocks : csock[k].sid = s /\ csock[k].state = "OPEN"
    /\ inbound = Inbound("term", "input")

\* ---------------------------------------------------------------- C37
C37_Step ==
  \A k \in ChatSocks, q \in ProcIds :
    /\ ChatSocketClose(k) \/ ChatAbort(k)
    /\ procs[q].state = "running"
    /\ procs[q].sock # k
    /\ csock[procs[q].sock].state = "OPEN"
    => procs'[q].state = "running"

\* C37: with two chat connections open for one session, the close of one
\* of them, or an abort sent on it, does not signal an assistant process
\* that a message on the other, still open connection started
C37_OtherConnectionUnaffected == [][C37_Step]_vars

\* ---------------------------------------------------------------- C38
\* C38: at most one Repository record exists per user and git URL, also
\* when two add requests for the same URL of one user overlap
C38_OneRepositoryPerUrl ==
  \A u \in Users, url \in Urls : Cardinality(getRepositoryByUrl(u, url)) <= 1

\* ---------------------------------------------------------------- C39
C39_Step ==
  \A u \in Users, s \in SessionIds :
    DeleteSession(u, s) =>
      /\ rows' = [rows EXCEPT ![s] = NoRow]
      /\ UNCHANGED <<wsDirs, workspaces, worktrees, repos, repoDirs>>
      /\ IF rows[s].workspace_id # None
         THEN dirs' = dirs
         ELSE dirs' = dirs \ {s}

\* C39: deleting a session bound to a workspace removes the session's row
\* and nothing else: the worktree directory, the workspace record and the
\* git worktree registration stay as they were; a directory is removed only
\* when the session is standalone, and then it is the session's own
C39_DeleteLeavesWorkspace == [][C39_Step]_vars

\* a session bound to a workspace has just been deleted, and the workspace
\* record, its worktree directory and its git registration are all there
C39_Witness ==
  \E w \in WsIds :
    /\ logged = Logged(logged.sessionId, w)
    /\ logged.sessionId \in SessionIds
    /\ ~rows[logged.sessionId].exists
    /\ workspaces[w].exists
    /\ w \in wsDirs
    /\ worktrees[w] # NoWorktree

\* ---------------------------------------------------------------- C40
\* C40: in the client auth store, whenever isAuthenticated is true the
\* token is not null, whatever the order in which setToken, checkAuth and
\* logout are called and their requests are answered
C40_AuthenticatedHasToken ==
  store.isAuthenticated => store.token # NoToken

====
